---------------------------- MODULE Spec2Model ----------------------------
(***************************************************************************)
(* Model of the Auragraph front end: the auth service (services/auth.ts),  *)
(* the AuthProvider context (context/AuthContext.tsx) built on it, and the *)
(* Login page form (pages/Login.tsx).                                      *)
(* With them the playlist pages: the mock API (services/api.ts) with its   *)
(* storage, catalogue queries and recommendations, the PlaylistProvider    *)
(* (context/PlaylistContext.tsx) and the PublicPlaylist page.              *)
(*                                                                         *)
(* JavaScript runs one handler at a time: a step of the model is one run   *)
(* of the event loop, from the arrival of a fetch response (or a call by   *)
(* the user interface) through every continuation it wakes, up to the next *)
(* await of a fetch.                                                       *)
(***************************************************************************)
EXTENDS Integers, Sequences, FiniteSets, TLC

(***************************************************************************)
(* Bounds and value domains                                                *)
(***************************************************************************)
\* number of service calls that may be awaiting a response at the same time
MaxInFlight == 2

Null == "null"                 \* null / undefined
NoHeader == "no-header"        \* the request has no Authorization header
Tokens == {"t1", "t2"}         \* access tokens a server may issue
Profiles == {"p1", "p2"}       \* user profiles a server may return
NetworkFailure == 0            \* fetch() itself rejected: there is no Response
ErrorStatuses == {401, 403, 500, NetworkFailure}

Slots == 1 .. MaxInFlight

VARIABLES
  tokenCache,    \* services/auth.ts: let tokenCache
  calls,         \* the async calls awaiting a fetch response, by slot
  last,          \* the step that led to this state (history variable)
  user,          \* AuthProvider state: user
  status,        \* AuthProvider state: status
  error,         \* AuthProvider state: error
  isProcessing,  \* AuthProvider state: isProcessing
  mounted,       \* AuthProvider is mounted (the hydrate effect's ~cancelled)
  email,         \* Login page state: email
  password,      \* Login page state: password
  fieldErrors,   \* Login page state: fieldErrors
  submitError,   \* Login page state: submitError
  pending,       \* Login page: the login() of handleSubmit has not settled
  location,      \* the router's location: pathname, search, hash and state
  submitted,     \* what the last step of the Login page did (history variable)
  localStorageAvailable,  \* services/api.ts: what isLocalStorageAvailable() returns
  localStorage,  \* window.localStorage: the value under STORAGE_KEY
  inMemoryPlaylist,  \* services/api.ts: let inMemoryPlaylist
  now,           \* the clock read by new Date()
  playlist,      \* PlaylistProvider state: playlist
  isLoading,     \* PlaylistProvider state: isLoading
  isSaving,      \* PlaylistProvider state: isSaving
  playlistError, \* PlaylistProvider state: error
  loading,       \* the getPlaylist() promise loadPlaylist() awaits
  saving,        \* the savePlaylist() promise save() awaits
  route,         \* the page shown: the dashboard, or /playlist/:playlistId
  publicStatus,  \* PublicPlaylist state: status
  publicPlaylist,  \* PublicPlaylist state: playlist
  publicLoad,    \* the getPlaylistById() promise PublicPlaylist's load() awaits
  plast,         \* what the last step of the playlist pages did (history variable)
  media,         \* the last call of fetchMedia(), getPopularMedia() or searchMedia()
  recommendations,  \* RecommendationGrid state: recommendations
  grid,          \* RecommendationGrid: loading, error and the calls in flight
  feeds          \* useDiscoveryFeed and usePlaylists: store list, state, loads

serviceVars == <<tokenCache, calls, last>>
providerVars == <<user, status, error, isProcessing, mounted>>
authVars == <<serviceVars, providerVars>>
loginVars == <<email, password, fieldErrors, submitError, pending, location, submitted>>
\* the state outside the auth service and provider, and outside the Login page
storageVars == <<localStorageAvailable, localStorage, inMemoryPlaylist>>
playlistProviderVars == <<playlist, isLoading, isSaving, playlistError, loading, saving>>
publicPlaylistVars == <<publicStatus, publicPlaylist, publicLoad>>
playlistVars == <<storageVars, now, playlistProviderVars, route, publicPlaylistVars, plast>>
discoveryVars == <<media, recommendations, grid, feeds>>
notAuthVars == <<loginVars, playlistVars, discoveryVars>>
notLoginVars == <<authVars, playlistVars, discoveryVars>>
notPlaylistVars == <<authVars, loginVars, discoveryVars>>
notDiscoveryVars == <<authVars, loginVars, playlistVars>>
vars == <<authVars, loginVars, playlistVars, discoveryVars>>

\* strings of the Login page are sequences of characters; "/l" stands for
\* the route /login and "/p" for /profile
LoginPath == <<"/", "l">>
\* location.state: null, or an object whose "from" may be missing
NoLocationState == [object |-> FALSE, hasFrom |-> FALSE, from |-> <<>>]

\* the Login page as it is while the model looks at the auth layer only
NoRejection == [isError |-> FALSE, message |-> ""]
NoSubmit == [kind |-> "none", payload |-> [email |-> <<>>, password |-> <<>>],
             to |-> <<>>, rejection |-> NoRejection]
LoginPageIdle ==
  /\ email = <<>> /\ password = <<>>
  /\ fieldErrors = [email |-> Null, password |-> Null]
  /\ submitError = Null /\ pending = FALSE
  /\ location = [pathname |-> LoginPath, search |-> <<>>, hash |-> <<>>,
                 state |-> NoLocationState]
  /\ submitted = NoSubmit

\* a Playlist (types: Playlist); present = FALSE stands for null.  Of a
\* PlaylistItem the model keeps what the code reads: id, type and
\* playlistItemId
DEFAULT_PLAYLIST_ID == "discovery-mix"
NoPlaylist == [present |-> FALSE, id |-> "", name |-> "", description |-> "",
               isPublic |-> FALSE, items |-> <<>>, updatedAt |-> 0]
\* localStorage.getItem(STORAGE_KEY) === null
NoItem == [kind |-> "absent", value |-> NoPlaylist]
\* a promise of the mock API that nothing awaits
NoPromise == [active |-> FALSE, value |-> NoPlaylist]
\* a save in flight: the payload savePlaylist() resolves with, and whether
\* the playlist was edited since save() was called
NoSave == [active |-> FALSE, value |-> NoPlaylist, edited |-> FALSE]
NoPlaylistEvent == [kind |-> "none"]
\* the routes of App: "/" and "/playlist/:playlistId"
Dashboard == [page |-> "Dashboard", playlistId |-> ""]

\* the playlist pages as they are while the model looks elsewhere
PlaylistPagesIdle ==
  /\ localStorageAvailable = TRUE /\ localStorage = NoItem
  /\ inMemoryPlaylist = NoPlaylist /\ now = 0
  /\ playlist = NoPlaylist /\ isLoading = FALSE /\ isSaving = FALSE
  /\ playlistError = Null /\ loading = NoPromise /\ saving = NoSave
  /\ route = Dashboard /\ publicStatus = "loading" /\ publicPlaylist = NoPlaylist
  /\ publicLoad = NoPromise /\ plast = NoPlaylistEvent

\* an optional string or number argument: given, or undefined
NoText == [given |-> FALSE, value |-> <<>>]
NoLimit == [given |-> FALSE, value |-> 0]
\* a MediaFilter without any field
NoFilters == [mediaType |-> Null, genre |-> NoText, mood |-> NoText, sortBy |-> Null]
\* no call of the media queries yet
NoMediaCall == [call |-> "none", mediaType |-> Null, filters |-> NoFilters,
                search |-> NoText, limit |-> NoLimit, items |-> <<>>]
\* RecommendationGrid before its effect has set the recommendations
NoRecommendations == [loaded |-> FALSE, items |-> <<>>]
\* RecommendationGrid not mounted
NoGrid == [mounted |-> FALSE, loading |-> TRUE, error |-> Null, calls |-> <<>>]
\* a hook of the mocked data that no component uses: the store's list is
\* empty, no load is in flight
NoApiError == [present |-> FALSE, message |-> "", status |-> Null]
NoOutcome == [ok |-> TRUE, items |-> <<>>, error |-> NoApiError]
\* what the last step of a hook did (history)
Happened(kind) == [kind |-> kind, outcome |-> NoOutcome]
NoFeed ==
  [mounted |-> FALSE, list |-> <<>>, error |-> NoApiError, isLoading |-> FALSE,
   effect |-> FALSE, loads |-> 0, earlier |-> 0,
   event |-> [kind |-> "none", outcome |-> NoOutcome]]
Hooks == {"useDiscoveryFeed", "usePlaylists"}
DiscoveryIdle ==
  /\ media = NoMediaCall /\ recommendations = NoRecommendations
  /\ grid = NoGrid /\ feeds = [h \in Hooks |-> NoFeed]

(***************************************************************************)
(* services/auth.ts                                                        *)
(***************************************************************************)
\* Response.ok
ok(r) == r.status >= 200 /\ r.status <= 299

\* what the server may answer to each operation's request
Failures == {[status |-> s, tokens |-> Null, body |-> Null] : s \in ErrorStatuses}
AuthResponses == {[status |-> 200, tokens |-> t, body |-> p] : t \in Tokens, p \in Profiles}
TokenResponses == {[status |-> 200, tokens |-> t, body |-> Null] : t \in Tokens}
ProfileResponses == {[status |-> 200, tokens |-> Null, body |-> p] : p \in Profiles}
VoidResponses == {[status |-> 204, tokens |-> Null, body |-> Null]}

\* JavaScript truthiness of a string-or-null value
Truthy(s) == s # Null /\ s # ""

NoRequest == [method |-> Null, path |-> Null, auth |-> NoHeader]

\* faulty variant of request(): the Bearer header is set on every request
request_ignoringRequireAuth(path, method, requireAuth, cache) ==
  [method |-> method, path |-> path,
   auth |-> IF Truthy(cache) THEN cache ELSE NoHeader]

\* request(): the request as handed to fetch (lines 82-100)
request(path, method, requireAuth, cache) ==
  [method |-> method, path |-> path,
   auth |-> IF requireAuth /\ Truthy(cache) THEN cache ELSE NoHeader]

\* request(): what the awaited fetch turns into (lines 96-107)
requestResult(r) ==
  IF r.status = NetworkFailure
    THEN [thrown |-> TRUE, apiError |-> FALSE, status |-> r.status, tokens |-> Null, body |-> Null]
    ELSE IF ~ok(r)
      THEN [thrown |-> TRUE, apiError |-> TRUE, status |-> r.status, tokens |-> Null, body |-> Null]
      ELSE [thrown |-> FALSE, apiError |-> FALSE, status |-> r.status, tokens |-> r.tokens, body |-> r.body]

setTokens(tokens) == tokens

getAccessToken == IF tokenCache = Null THEN Null ELSE tokenCache

\* faulty variant of isUnauthorizedError(): every ApiError counts
isUnauthorizedError_anyApiError(e) == e.apiError

isUnauthorizedError(e) == e.apiError /\ (e.status = 401 \/ e.status = 403)


\* what a service function hands back to its caller, and the token cache it leaves
Outcome(cache, kind, value, e) ==
  [cache |-> cache, kind |-> kind, value |-> value,
   apiError |-> e.apiError, status |-> e.status]

\* signup(): lines 124-132, after the awaited request
signup(r, cache) ==
  LET result == requestResult(r)
  IN IF result.thrown
       THEN Outcome(cache, "rejected", Null, result)
       ELSE Outcome(setTokens(result.tokens), "resolved", result.body, result)

\* faulty variant of login(): the tokens of the response are not stored
login_withoutSetTokens(r, cache) ==
  LET result == requestResult(r)
  IN IF result.thrown
       THEN Outcome(cache, "rejected", Null, result)
       ELSE Outcome(cache, "resolved", result.body, result)

\* login(): lines 134-142, after the awaited request
login(r, cache) ==
  LET result == requestResult(r)
  IN IF result.thrown
       THEN Outcome(cache, "rejected", Null, result)
       ELSE Outcome(setTokens(result.tokens), "resolved", result.body, result)

\* faulty variant of refreshSession(): the new tokens are returned, not stored
refreshSession_withoutSetTokens(r, cache) ==
  LET tokens == requestResult(r)
  IN IF tokens.thrown
       THEN Outcome(cache, "rejected", Null, tokens)
       ELSE Outcome(cache, "resolved", tokens.tokens, tokens)

\* refreshSession(): lines 144-151, after the awaited request
refreshSession(r, cache) ==
  LET tokens == requestResult(r)
  IN IF tokens.thrown
       THEN Outcome(cache, "rejected", Null, tokens)
       ELSE Outcome(setTokens(tokens.tokens), "resolved", tokens.tokens, tokens)

\* fetchProfile(): lines 153-158, after the awaited request
fetchProfile(r, cache) ==
  LET result == requestResult(r)
  IN IF result.thrown
       THEN Outcome(cache, "rejected", Null, result)
       ELSE Outcome(cache, "resolved", result.body, result)

\* updateProfile(): lines 160-166, after the awaited request
updateProfile(r, cache) ==
  LET result == requestResult(r)
  IN IF result.thrown
       THEN Outcome(cache, "rejected", Null, result)
       ELSE Outcome(cache, "resolved", result.body, result)

\* clearTokens(): lines 116-118
clearTokens == Null

\* logout(): lines 168-176, after the awaited request; a rejected request
\* leaves the function at the await, before clearTokens()
logout(r, cache) ==
  LET result == requestResult(r)
  IN IF result.thrown
       THEN Outcome(cache, "rejected", Null, result)
       ELSE Outcome(clearTokens, "resolved", Null, result)

\* faulty variant of resolveSession(): a denied refresh leaves the old tokens
resolveSession_keepingTokens(reqs, r, cache) ==
  IF reqs = 1
    THEN LET first == fetchProfile(r, cache)
         IN IF first.kind = "resolved" THEN first
            ELSE IF ~isUnauthorizedError(first)
              THEN Outcome(cache, "resolved", Null, first)
              ELSE Outcome(cache, "refresh", Null, first)
  ELSE IF reqs = 2
    THEN LET refreshed == refreshSession(r, cache)
         IN IF refreshed.kind = "resolved"
              THEN Outcome(refreshed.cache, "profile", Null, refreshed)
              ELSE IF ~isUnauthorizedError(refreshed)
                THEN Outcome(cache, "rejected", Null, refreshed)
                ELSE Outcome(cache, "resolved", Null, refreshed)
  ELSE LET second == fetchProfile(r, cache)
       IN IF second.kind = "resolved" THEN second
          ELSE IF ~isUnauthorizedError(second)
            THEN Outcome(cache, "rejected", Null, second)
            ELSE Outcome(clearTokens, "resolved", Null, second)

\* resolveSession(): lines 178-199.  reqs is the number of requests the call
\* has issued so far (1: the first GET /auth/me, 2: POST /auth/refresh,
\* 3: the second GET /auth/me); kind "refresh" / "profile" say which request
\* the call issues next instead of settling.
resolveSession(reqs, r, cache) ==
  IF reqs = 1
    THEN LET first == fetchProfile(r, cache)
         IN IF first.kind = "resolved" THEN first
            ELSE IF ~isUnauthorizedError(first)
              THEN Outcome(cache, "resolved", Null, first)
              ELSE Outcome(cache, "refresh", Null, first)
  ELSE IF reqs = 2
    THEN LET refreshed == refreshSession(r, cache)
         IN IF refreshed.kind = "resolved"
              THEN Outcome(refreshed.cache, "profile", Null, refreshed)
              ELSE IF ~isUnauthorizedError(refreshed)
                THEN Outcome(cache, "rejected", Null, refreshed)
                ELSE Outcome(clearTokens, "resolved", Null, refreshed)
  ELSE LET second == fetchProfile(r, cache)
       IN IF second.kind = "resolved" THEN second
          ELSE IF ~isUnauthorizedError(second)
            THEN Outcome(cache, "rejected", Null, second)
            ELSE Outcome(clearTokens, "resolved", Null, second)

\* the request each function issues when called (for resolveSession: the
\* fetchProfile() of line 180)
FirstRequest(op, cache) ==
  CASE op = "signup" -> request("/auth/signup", "POST", FALSE, cache)
    [] op = "login" -> request("/auth/login", "POST", FALSE, cache)
    [] op = "refreshSession" -> request("/auth/refresh", "POST", FALSE, cache)
    [] op = "fetchProfile" -> request("/auth/me", "GET", TRUE, cache)
    [] op = "updateProfile" -> request("/auth/me", "PUT", TRUE, cache)
    [] op = "logout" -> request("/auth/logout", "POST", TRUE, cache)
    [] op = "resolveSession" -> request("/auth/me", "GET", TRUE, cache)

\* the request resolveSession issues after a response sent it on
NextRequest(kind, cache) ==
  IF kind = "refresh"
    THEN request("/auth/refresh", "POST", FALSE, cache)
    ELSE request("/auth/me", "GET", TRUE, cache)

\* how the continuation of a call handles the response r
ServiceStep(c, r, cache) ==
  CASE c.op = "signup" -> signup(r, cache)
    [] c.op = "login" -> login(r, cache)
    [] c.op = "refreshSession" -> refreshSession(r, cache)
    [] c.op = "fetchProfile" -> fetchProfile(r, cache)
    [] c.op = "updateProfile" -> updateProfile(r, cache)
    [] c.op = "logout" -> logout(r, cache)
    [] c.op = "resolveSession" -> resolveSession(Len(c.reqs), r, cache)

\* the answers the server may give to the request a call is waiting on
ResponsesTo(path) ==
  Failures \cup
    (CASE path = "POST /auth/signup" -> AuthResponses
       [] path = "POST /auth/login" -> AuthResponses
       [] path = "POST /auth/refresh" -> TokenResponses
       [] path = "GET /auth/me" -> ProfileResponses
       [] path = "PUT /auth/me" -> ProfileResponses
       [] path = "POST /auth/logout" -> VoidResponses)

Line(req) == IF req.method = "GET" THEN "GET " \o req.path
             ELSE IF req.method = "PUT" THEN "PUT " \o req.path
             ELSE "POST " \o req.path

\* how the AuthProvider callback that awaited the service function settles
\* its own promise (AuthContext.tsx): logout swallows the error (lines
\* 245-247), hydrate catches it (186-192), the others rethrow it
Promise(op, kind) ==
  IF op \in {"logout", "resolveSession"} THEN "resolved" ELSE kind

(***************************************************************************)
(* Calls in flight                                                         *)
(***************************************************************************)
NoStatus == -1
Idle == [op |-> "idle", caller |-> "none", reqs |-> <<>>, refreshed |-> Null,
         undisturbed |-> TRUE]

\* every other call in flight has now seen another call act
Disturb(i) ==
  [j \in Slots |->
     IF j # i /\ calls[j] # Idle THEN [calls[j] EXCEPT !.undisturbed = FALSE]
     ELSE calls[j]]

NoEvent ==
  [kind |-> "none", op |-> "none", caller |-> "none", req |-> NoRequest,
   reqs |-> <<>>, refreshed |-> Null, tokens |-> Null, body |-> Null,
   value |-> Null,
   apiError |-> FALSE, status |-> NoStatus, undisturbed |-> TRUE,
   statusBefore |-> "none", promise |-> "none"]

\* a caller calls the service function op: it runs up to its first await
Call(i, op, caller) ==
  LET req == FirstRequest(op, tokenCache)
      c == [op |-> op, caller |-> caller, reqs |-> <<Line(req)>>,
            refreshed |-> Null, undisturbed |-> TRUE]
  IN /\ calls[i] = Idle
     /\ \A j \in Slots : j < i => calls[j] # Idle
     /\ calls' = [Disturb(i) EXCEPT ![i] = c]
     /\ last' = [NoEvent EXCEPT !.kind = "request", !.op = op, !.caller = caller,
                   !.req = req, !.reqs = c.reqs, !.statusBefore = status]
     /\ UNCHANGED <<tokenCache, notAuthVars>>

\* the response r to the request of call i arrives and its continuation runs
Handle(i, r, op, caller) ==
  LET c == calls[i]
      o == ServiceStep(c, r, tokenCache)
      settled == o.kind \in {"resolved", "rejected"}
      req == NextRequest(o.kind, o.cache)
      d == IF settled THEN c
           ELSE [c EXCEPT !.reqs = Append(@, Line(req)),
                          !.refreshed = IF Len(c.reqs) = 2 THEN r.tokens ELSE @]
  IN /\ c.op = op /\ c.caller = caller
     /\ r \in ResponsesTo(c.reqs[Len(c.reqs)])
     /\ tokenCache' = o.cache
     /\ calls' = [Disturb(i) EXCEPT ![i] = IF settled THEN Idle ELSE d]
     /\ last' = [kind |-> IF settled THEN o.kind ELSE "request",
                 op |-> op, caller |-> caller,
                 req |-> IF settled THEN NoRequest ELSE req,
                 reqs |-> d.reqs, refreshed |-> d.refreshed,
                 tokens |-> r.tokens, body |-> r.body, value |-> o.value,
                 apiError |-> o.apiError, status |-> o.status,
                 undisturbed |-> c.undisturbed, statusBefore |-> status,
                 promise |-> IF settled /\ caller = "provider"
                               THEN Promise(op, o.kind) ELSE "none"]
     /\ UNCHANGED notAuthVars

(***************************************************************************)
(* The auth service called directly (as its unit tests do)                 *)
(***************************************************************************)
CallSignup(i) == Call(i, "signup", "direct") /\ UNCHANGED providerVars
CallLogin(i) == Call(i, "login", "direct") /\ UNCHANGED providerVars
CallRefreshSession(i) == Call(i, "refreshSession", "direct") /\ UNCHANGED providerVars
CallFetchProfile(i) == Call(i, "fetchProfile", "direct") /\ UNCHANGED providerVars
CallUpdateProfile(i) == Call(i, "updateProfile", "direct") /\ UNCHANGED providerVars
CallLogout(i) == Call(i, "logout", "direct") /\ UNCHANGED providerVars
CallResolveSession(i) == Call(i, "resolveSession", "direct") /\ UNCHANGED providerVars

SignupSettles(i, r) == Handle(i, r, "signup", "direct") /\ UNCHANGED providerVars
LoginSettles(i, r) == Handle(i, r, "login", "direct") /\ UNCHANGED providerVars
RefreshSessionSettles(i, r) ==
  Handle(i, r, "refreshSession", "direct") /\ UNCHANGED providerVars
FetchProfileSettles(i, r) ==
  Handle(i, r, "fetchProfile", "direct") /\ UNCHANGED providerVars
UpdateProfileSettles(i, r) ==
  Handle(i, r, "updateProfile", "direct") /\ UNCHANGED providerVars
LogoutSettles(i, r) == Handle(i, r, "logout", "direct") /\ UNCHANGED providerVars
ResolveSessionContinues(i, r) ==
  Handle(i, r, "resolveSession", "direct") /\ UNCHANGED providerVars

\* clearTokens() called by the application
CallClearTokens ==
  /\ tokenCache' = clearTokens
  /\ calls' = Disturb(0)
  /\ last' = [NoEvent EXCEPT !.kind = "clearTokens", !.op = "clearTokens",
                !.caller = "direct", !.statusBefore = status]
  /\ UNCHANGED <<providerVars, notAuthVars>>

Init ==
  /\ tokenCache = Null
  /\ calls = [i \in Slots |-> Idle]
  /\ last = NoEvent
  /\ user = Null
  /\ status = "loading"
  /\ error = Null
  /\ isProcessing = FALSE
  /\ mounted = FALSE
  /\ LoginPageIdle
  /\ PlaylistPagesIdle
  /\ DiscoveryIdle

Next ==
  \/ \E i \in Slots : CallSignup(i)
  \/ \E i \in Slots : CallLogin(i)
  \/ \E i \in Slots : CallRefreshSession(i)
  \/ \E i \in Slots : CallFetchProfile(i)
  \/ \E i \in Slots : CallUpdateProfile(i)
  \/ \E i \in Slots : CallLogout(i)
  \/ \E i \in Slots : CallResolveSession(i)
  \/ \E i \in Slots : \E r \in Failures \cup AuthResponses : SignupSettles(i, r)
  \/ \E i \in Slots : \E r \in Failures \cup AuthResponses : LoginSettles(i, r)
  \/ \E i \in Slots : \E r \in Failures \cup TokenResponses : RefreshSessionSettles(i, r)
  \/ \E i \in Slots : \E r \in Failures \cup ProfileResponses : FetchProfileSettles(i, r)
  \/ \E i \in Slots : \E r \in Failures \cup ProfileResponses : UpdateProfileSettles(i, r)
  \/ \E i \in Slots : \E r \in Failures \cup VoidResponses : LogoutSettles(i, r)
  \/ \E i \in Slots :
       \E r \in Failures \cup ProfileResponses \cup TokenResponses :
         ResolveSessionContinues(i, r)
  \/ CallClearTokens

Spec == Init /\ [][Next]_vars

(***************************************************************************)
(* context/AuthContext.tsx (the file is stored in src/src/pages/            *)
(* Login.test.tsx, from line 109 on)                                       *)
(***************************************************************************)
State == [user |-> user, status |-> status, error |-> error,
          isProcessing |-> isProcessing]

\* the message of the thrown error: parseError's message for an ApiError,
\* fetch's own for a network failure
message(e) ==
  CASE e.status = 401 -> "Unauthorized"
    [] e.status = 403 -> "Forbidden"
    [] e.status = 500 -> "Server error"
    [] OTHER -> "Failed to fetch"

\* resolveErrorMessage(): lines 142-152
resolveErrorMessage(e, fallback) ==
  IF Truthy(message(e)) THEN message(e) ELSE fallback

\* faulty variant of hydrate(): a rejected resolveSession() is not handled
hydrate_withoutCatch(o, st, cancelled) ==
  IF cancelled \/ o.kind = "rejected" THEN st
  ELSE IF Truthy(o.value)
    THEN [st EXCEPT !.user = o.value, !.status = "authenticated"]
    ELSE [st EXCEPT !.user = Null, !.status = "unauthenticated"]

\* hydrate(): lines 172-193, after resolveSession() settled with o
hydrate(o, st, cancelled) ==
  IF cancelled THEN st
  ELSE IF o.kind = "resolved" /\ Truthy(o.value)
    THEN [st EXCEPT !.user = o.value, !.status = "authenticated"]
    ELSE [st EXCEPT !.user = Null, !.status = "unauthenticated"]

\* faulty variant of the head of the callbacks: the old error is kept
startProcessing_keepingError(st) == [st EXCEPT !.isProcessing = TRUE]

\* login / signup / logout / updateProfile: the synchronous head of the
\* callback (lines 203-204, 222-223, 241-242, 255-256)
startProcessing(st) == [st EXCEPT !.isProcessing = TRUE, !.error = Null]

\* login(): lines 205-218, after loginRequest() settled with o
loginSettled(o, st) ==
  IF o.kind = "resolved"
    THEN [st EXCEPT !.user = o.value, !.status = "authenticated",
                    !.isProcessing = FALSE]
    ELSE [st EXCEPT !.error = resolveErrorMessage(o, "We could not sign you in with those details."),
                    !.status = "unauthenticated", !.isProcessing = FALSE]

\* signup(): lines 224-237, after signupRequest() settled with o
signupSettled(o, st) ==
  IF o.kind = "resolved"
    THEN [st EXCEPT !.user = o.value, !.status = "authenticated",
                    !.isProcessing = FALSE]
    ELSE [st EXCEPT !.error = resolveErrorMessage(o, "We were unable to complete your registration."),
                    !.status = "unauthenticated", !.isProcessing = FALSE]

\* faulty variant of logout(): the session is cleared in the try block only
logoutSettled_withoutFinally(o, st) ==
  IF o.kind = "resolved"
    THEN [st EXCEPT !.user = Null, !.status = "unauthenticated", !.isProcessing = FALSE]
    ELSE st

\* logout(): lines 243-251, after logoutRequest() settled with o
logoutSettled(o, st) ==
  [st EXCEPT !.user = Null, !.status = "unauthenticated", !.isProcessing = FALSE]

\* updateProfile(): lines 257-269, after updateProfileRequest() settled
updateProfileSettled(o, st) ==
  IF o.kind = "resolved"
    THEN [st EXCEPT !.user = o.value, !.status = "authenticated",
                    !.isProcessing = FALSE]
    ELSE [st EXCEPT !.error = resolveErrorMessage(o, "Unable to update your preferences right now."),
                    !.isProcessing = FALSE]

\* refreshProfile(): lines 273-287, after fetchProfileRequest() settled
refreshProfileSettled(o, st) ==
  IF o.kind = "resolved"
    THEN [st EXCEPT !.user = o.value, !.status = "authenticated"]
    ELSE IF isUnauthorizedError(o)
      THEN [st EXCEPT !.user = Null, !.status = "unauthenticated",
                      !.error = resolveErrorMessage(o, "Unable to refresh your profile right now.")]
      ELSE [st EXCEPT !.error = resolveErrorMessage(o, "Unable to refresh your profile right now.")]

\* React applies the state updates of a handler in one render; updates to a
\* component that has been unmounted are dropped
Render(st) ==
  /\ user' = IF mounted THEN st.user ELSE user
  /\ status' = IF mounted THEN st.status ELSE status
  /\ error' = IF mounted THEN st.error ELSE error
  /\ isProcessing' = IF mounted THEN st.isProcessing ELSE isProcessing
  /\ UNCHANGED mounted

AuthProviderLogin(i) ==
  mounted /\ Call(i, "login", "provider") /\ Render(startProcessing(State))
AuthProviderSignup(i) ==
  mounted /\ Call(i, "signup", "provider") /\ Render(startProcessing(State))
AuthProviderLogout(i) ==
  mounted /\ Call(i, "logout", "provider") /\ Render(startProcessing(State))
AuthProviderUpdateProfile(i) ==
  mounted /\ Call(i, "updateProfile", "provider") /\ Render(startProcessing(State))
AuthProviderRefreshProfile(i) ==
  mounted /\ Call(i, "fetchProfile", "provider") /\ UNCHANGED providerVars

\* the resolveSession() of the hydrate effect goes on or settles
AuthProviderHydrates(i, r) ==
  /\ Handle(i, r, "resolveSession", "provider")
  /\ LET o == resolveSession(Len(calls[i].reqs), r, tokenCache)
     IN IF o.kind \in {"resolved", "rejected"}
          THEN Render(hydrate(o, State, ~mounted))
          ELSE UNCHANGED providerVars
AuthProviderLoginSettles(i, r) ==
  Handle(i, r, "login", "provider") /\ Render(loginSettled(login(r, tokenCache), State))
AuthProviderSignupSettles(i, r) ==
  Handle(i, r, "signup", "provider") /\ Render(signupSettled(signup(r, tokenCache), State))
AuthProviderLogoutSettles(i, r) ==
  Handle(i, r, "logout", "provider") /\ Render(logoutSettled(logout(r, tokenCache), State))
AuthProviderUpdateProfileSettles(i, r) ==
  /\ Handle(i, r, "updateProfile", "provider")
  /\ Render(updateProfileSettled(updateProfile(r, tokenCache), State))
AuthProviderRefreshProfileSettles(i, r) ==
  /\ Handle(i, r, "fetchProfile", "provider")
  /\ Render(refreshProfileSettled(fetchProfile(r, tokenCache), State))

\* clearError(): lines 290-292
AuthProviderClearError ==
  /\ mounted /\ error # Null
  /\ error' = Null
  /\ last' = [NoEvent EXCEPT !.kind = "clearError", !.op = "clearError",
                !.caller = "provider", !.statusBefore = status]
  /\ UNCHANGED <<tokenCache, calls, user, status, isProcessing, mounted, notAuthVars>>

\* the effect's cleanup (lines 197-199): cancelled = true
AuthProviderUnmounts ==
  /\ mounted
  /\ mounted' = FALSE
  /\ last' = [NoEvent EXCEPT !.kind = "unmount", !.op = "unmount",
                !.caller = "provider", !.statusBefore = status]
  /\ UNCHANGED <<tokenCache, calls, user, status, error, isProcessing, notAuthVars>>

\* the provider just mounted (lines 164-167) and its effect has called
\* hydrate(), which awaits the first request of resolveSession() (line 174)
HydrateRequest == FirstRequest("resolveSession", Null)
InitProvider ==
  /\ tokenCache = Null
  /\ calls = [i \in Slots |->
                IF i = 1
                  THEN [op |-> "resolveSession", caller |-> "provider",
                        reqs |-> <<Line(HydrateRequest)>>, refreshed |-> Null,
                        undisturbed |-> TRUE]
                  ELSE Idle]
  /\ last = [NoEvent EXCEPT !.kind = "request", !.op = "resolveSession",
               !.caller = "provider", !.req = HydrateRequest,
               !.reqs = <<Line(HydrateRequest)>>, !.statusBefore = "loading"]
  /\ user = Null
  /\ status = "loading"
  /\ error = Null
  /\ isProcessing = FALSE
  /\ mounted = TRUE
  /\ LoginPageIdle
  /\ PlaylistPagesIdle
  /\ DiscoveryIdle

\* the provider never reads the tokens: one token value is enough here
SessionResponses == {r \in AuthResponses : r.tokens = "t1"}
RenewalResponses == {r \in TokenResponses : r.tokens = "t1"}

NextProvider ==
  \/ \E i \in Slots : AuthProviderLogin(i)
  \/ \E i \in Slots : AuthProviderSignup(i)
  \/ \E i \in Slots : AuthProviderLogout(i)
  \/ \E i \in Slots : AuthProviderUpdateProfile(i)
  \/ \E i \in Slots : AuthProviderRefreshProfile(i)
  \/ \E i \in Slots :
       \E r \in Failures \cup ProfileResponses \cup RenewalResponses :
         AuthProviderHydrates(i, r)
  \/ \E i \in Slots : \E r \in Failures \cup SessionResponses : AuthProviderLoginSettles(i, r)
  \/ \E i \in Slots : \E r \in Failures \cup SessionResponses : AuthProviderSignupSettles(i, r)
  \/ \E i \in Slots : \E r \in Failures \cup VoidResponses : AuthProviderLogoutSettles(i, r)
  \/ \E i \in Slots :
       \E r \in Failures \cup ProfileResponses : AuthProviderUpdateProfileSettles(i, r)
  \/ \E i \in Slots :
       \E r \in Failures \cup ProfileResponses : AuthProviderRefreshProfileSettles(i, r)
  \/ AuthProviderClearError
  \/ AuthProviderUnmounts

SpecProvider == InitProvider /\ [][NextProvider]_vars

(***************************************************************************)
(* pages/Login.tsx (the file is stored in src/src/pages/PlaylistsPage.tsx, *)
(* lines 126-296)                                                          *)
(***************************************************************************)
MaxEmailLen == 5       \* longest e-mail address typed into the form
MaxPasswordLen == 8    \* longest password typed into the form

Whitespace == {" "}
EmailChars == {"U", "@", "."}      \* keys typed into the e-mail field
PasswordChars == {"x"}             \* keys typed into the password field
\* values pasted into the fields: leading, trailing and inner white space
PastedEmails == {<<" ", "U", "@", "U", ".", "U">>, <<"U", "@", "U", ".", "U", " ">>,
                 <<"U", "@", " ", ".", "U">>, <<" ", " ">>}
PastedPasswords == {<<" ", "x", "x", "x", "x", "x", "x", " ">>}

\* String.prototype.trim()
RECURSIVE trimStart(_)
trimStart(s) ==
  IF s # <<>> /\ Head(s) \in Whitespace THEN trimStart(Tail(s)) ELSE s
RECURSIVE trimEnd(_)
trimEnd(s) ==
  IF s # <<>> /\ s[Len(s)] \in Whitespace THEN trimEnd(SubSeq(s, 1, Len(s) - 1)) ELSE s
trim(s) == trimEnd(trimStart(s))

\* String.prototype.toLowerCase()
UpperCase == <<"U", "A", "B", "C", "E">>
LowerCase == <<"u", "a", "b", "c", "e">>
toLowerCase(s) ==
  [i \in 1 .. Len(s) |->
     IF \E k \in 1 .. Len(UpperCase) : UpperCase[k] = s[i]
       THEN LowerCase[CHOOSE k \in 1 .. Len(UpperCase) : UpperCase[k] = s[i]]
       ELSE s[i]]

\* String.prototype.startsWith('/')
startsWithSlash(s) == s # <<>> /\ Head(s) = "/"

\* emailPattern.test(): /^[^\s@]+@[^\s@]+\.[^\s@]+$/ (line 135)
emailPattern(s) ==
  \E i, j \in 1 .. Len(s) :
    /\ 1 < i /\ i + 1 < j /\ j < Len(s)
    /\ s[i] = "@" /\ s[j] = "."
    /\ \A k \in 1 .. Len(s) : k # i => s[k] \notin Whitespace \cup {"@"}

MinPasswordLength == 8

\* validate(): lines 158-175, the errors it computes
validate(mail, pass) ==
  [email |-> IF trim(mail) = <<>>
               THEN "Please enter the email you used to register."
             ELSE IF ~emailPattern(trim(mail))
               THEN "That email address does not look quite right."
             ELSE Null,
   password |-> IF pass = <<>>
                  THEN "Enter your password to continue."
                ELSE IF Len(pass) < MinPasswordLength
                  THEN "Passwords must be at least 8 characters long."
                ELSE Null]

\* Object.keys(nextErrors).length === 0
noErrors(errors) == errors.email = Null /\ errors.password = Null

\* faulty variant of the login() argument: the e-mail goes out as typed
loginPayload_asTyped(mail, pass) == [email |-> mail, password |-> pass]

\* the argument handleSubmit passes to login(): line 187
loginPayload(mail, pass) == [email |-> toLowerCase(trim(mail)), password |-> pass]

\* faulty variant of redirectTo: location.state.from is ignored
redirectTo_ignoringFrom(state) == <<"/">>

\* redirectTo: lines 141-144
redirectTo(state) ==
  IF state.object /\ state.hasFrom /\ state.from # <<>> /\ startsWithSlash(state.from)
    THEN state.from
    ELSE <<"/">>

\* the index of the first c in s, or 0 (String.prototype.indexOf() + 1)
indexOf(s, c) ==
  IF \E k \in 1 .. Len(s) : s[k] = c
    THEN CHOOSE k \in 1 .. Len(s) : s[k] = c /\ \A j \in 1 .. k - 1 : s[j] # c
    ELSE 0

\* react-router's parsePath(): the hash is cut off first, then the search
parsePath(path) ==
  LET hashAt == indexOf(path, "#")
      beforeHash == IF hashAt > 0 THEN SubSeq(path, 1, hashAt - 1) ELSE path
      searchAt == indexOf(beforeHash, "?")
  IN [pathname |-> IF searchAt > 0 THEN SubSeq(beforeHash, 1, searchAt - 1) ELSE beforeHash,
      search |-> IF searchAt > 0 THEN SubSeq(beforeHash, searchAt, Len(beforeHash)) ELSE <<>>,
      hash |-> IF hashAt > 0 THEN SubSeq(path, hashAt, Len(path)) ELSE <<>>]

\* navigate(to, { replace: true, state }): the location it leads to
navigate(to, state) ==
  [pathname |-> parsePath(to).pathname, search |-> parsePath(to).search,
   hash |-> parsePath(to).hash, state |-> state]

OnLoginPage == location.pathname = LoginPath

\* what the user can make of a field's value with one key stroke or a paste
Edits(value, chars, maxLen, pasted) ==
  {Append(value, c) : c \in IF Len(value) < maxLen THEN chars ELSE {}}
    \cup (IF value = <<>> THEN {} ELSE {SubSeq(value, 1, Len(value) - 1)})
    \cup pasted

\* handleEmailChange(): lines 195-204
HandleEmailChange(value) ==
  /\ OnLoginPage
  /\ value \in Edits(email, EmailChars, MaxEmailLen, PastedEmails)
  /\ email' = value
  /\ fieldErrors' = IF Truthy(fieldErrors.email)
                      THEN [fieldErrors EXCEPT !.email = Null] ELSE fieldErrors
  /\ submitError' = Null
  /\ submitted' = [NoSubmit EXCEPT !.kind = "change"]
  /\ UNCHANGED <<password, pending, location, notLoginVars>>

\* handlePasswordChange(): lines 206-215
HandlePasswordChange(value) ==
  /\ OnLoginPage
  /\ value \in Edits(password, PasswordChars, MaxPasswordLen, PastedPasswords)
  /\ password' = value
  /\ fieldErrors' = IF Truthy(fieldErrors.password)
                      THEN [fieldErrors EXCEPT !.password = Null] ELSE fieldErrors
  /\ submitError' = Null
  /\ submitted' = [NoSubmit EXCEPT !.kind = "change"]
  /\ UNCHANGED <<email, pending, location, notLoginVars>>

\* handleSubmit(): lines 177-188, up to the await of login().  The submit
\* button is disabled while the context's isProcessing is set (line 257),
\* which the provider's login() keeps set until it settles.
HandleSubmit ==
  /\ OnLoginPage /\ ~pending
  /\ LET nextErrors == validate(email, password)
     IN /\ fieldErrors' = nextErrors
        /\ IF ~noErrors(nextErrors)
             THEN /\ submitted' = [NoSubmit EXCEPT !.kind = "invalid"]
                  /\ UNCHANGED <<submitError, pending>>
             ELSE /\ submitError' = Null
                  /\ pending' = TRUE
                  /\ submitted' = [NoSubmit EXCEPT !.kind = "login",
                                     !.payload = loginPayload(email, password)]
  /\ UNCHANGED <<email, password, location, notLoginVars>>

\* handleSubmit(): lines 187-188, login() resolved: navigate(redirectTo,
\* {replace: true})
LoginResolves ==
  /\ pending
  /\ pending' = FALSE
  /\ location' = IF OnLoginPage
                   THEN navigate(redirectTo(location.state), NoLocationState)
                   ELSE location
  /\ submitted' = [NoSubmit EXCEPT !.kind = "resolved", !.to = redirectTo(location.state)]
  /\ UNCHANGED <<email, password, fieldErrors, submitError, notLoginVars>>

\* the values login() may reject with: an Error with a message, an Error
\* without one, something that is no Error
Rejections == {[isError |-> TRUE, message |-> "Invalid credentials"],
               [isError |-> TRUE, message |-> ""],
               [isError |-> FALSE, message |-> "Invalid credentials"]}

\* handleSubmit(): lines 189-192, login() rejected
LoginRejects(err) ==
  /\ pending
  /\ pending' = FALSE
  /\ submitError' = IF err.isError /\ Truthy(err.message)
                      THEN err.message ELSE "We were unable to sign you in."
  /\ submitted' = [NoSubmit EXCEPT !.kind = "rejected", !.rejection = err]
  /\ UNCHANGED <<email, password, fieldErrors, location, notLoginVars>>

\* the states a visitor can arrive on /login with: location.state is null,
\* or AuthGuard's { from } (a path), or some other object
LocationStates ==
  {NoLocationState, [object |-> TRUE, hasFrom |-> FALSE, from |-> <<>>]}
    \cup {[object |-> TRUE, hasFrom |-> TRUE, from |-> f] :
            f \in {<<>>, <<"/", "p">>, <<"p">>}}

InitLogin ==
  /\ tokenCache = Null
  /\ calls = [i \in Slots |-> Idle]
  /\ last = NoEvent
  /\ user = Null /\ status = "unauthenticated" /\ error = Null
  /\ isProcessing = FALSE /\ mounted = TRUE
  /\ email = <<>> /\ password = <<>>
  /\ fieldErrors = [email |-> Null, password |-> Null]
  /\ submitError = Null /\ pending = FALSE
  /\ \E st \in LocationStates :
       location = [pathname |-> LoginPath, search |-> <<>>, hash |-> <<>>, state |-> st]
  /\ submitted = NoSubmit
  /\ PlaylistPagesIdle
  /\ DiscoveryIdle

NextLogin ==
  \/ \E value \in Edits(email, EmailChars, MaxEmailLen, PastedEmails) :
       HandleEmailChange(value)
  \/ \E value \in Edits(password, PasswordChars, MaxPasswordLen, PastedPasswords) :
       HandlePasswordChange(value)
  \/ HandleSubmit
  \/ LoginResolves
  \/ \E err \in Rejections : LoginRejects(err)

SpecLogin == InitLogin /\ [][NextLogin]_vars

(***************************************************************************)
(* services/api.ts, the playlist storage of the mock API (the file is      *)
(* stored in src/src/hooks/useDiscoveryFeed.ts, lines 41-338)              *)
(***************************************************************************)
MaxClock == 1             \* the clock ticks this many times

\* the catalogue entries the discovery page offers, by (id, type)
Media == {[id |-> "1", type |-> "movie"], [id |-> "1", type |-> "music"],
          [id |-> "2", type |-> "music"]}
\* the entries added on the pages that save and share the playlist
SavedMedia == {[id |-> "1", type |-> "movie"], [id |-> "1", type |-> "music"]}
\* an array element that is undefined, and what JSON makes of it
Undefined == [id |-> "undefined", type |-> "undefined", playlistItemId |-> 0]
NullEntry == [id |-> "null", type |-> "null", playlistItemId |-> 0]

DefaultName == "My Discovery Mix"
DefaultDescription == "A living playlist"
Names == {DefaultName, "Road trip"}
Descriptions == {DefaultDescription}

\* createDefaultPlaylist(): lines 134-141
createDefaultPlaylist(t) ==
  [present |-> TRUE, id |-> DEFAULT_PLAYLIST_ID, name |-> DefaultName,
   description |-> DefaultDescription, isPublic |-> FALSE, items |-> <<>>,
   updatedAt |-> t]

\* JSON.stringify(playlist): an undefined array element is written as null
JSONstringify(p) ==
  [kind |-> "playlist",
   value |-> [p EXCEPT !.items = [i \in 1 .. Len(p.items) |->
                IF p.items[i] = Undefined THEN NullEntry ELSE p.items[i]]]]

\* JSON.parse(raw): it throws on text that is no JSON
JSONparse(raw) ==
  IF raw.kind = "playlist"
    THEN [thrown |-> FALSE, value |-> raw.value]
    ELSE [thrown |-> TRUE, value |-> NoPlaylist]

\* what the storage may hold that no savePlaylist() of this page wrote: text
\* that does not parse, and a playlist with another id
Unparsable == [kind |-> "unparsable", value |-> NoPlaylist]
OtherPlaylistId == "other"
ForeignPlaylist ==
  [present |-> TRUE, id |-> OtherPlaylistId, name |-> "Road trip",
   description |-> "", isPublic |-> TRUE, items |-> <<>>, updatedAt |-> 0]

\* readFromStorage(): lines 158-173
readFromStorage(available, store) ==
  IF available
    THEN IF store.localStorage.kind = "absent"
           THEN NoPlaylist
           ELSE LET parsed == JSONparse(store.localStorage)
                IN IF parsed.thrown THEN NoPlaylist ELSE parsed.value
    ELSE store.inMemoryPlaylist

\* writeToStorage(): lines 175-181; localStorage.setItem() throws when the
\* value does not fit the quota
writeToStorage(available, store, p, fits) ==
  IF available
    THEN IF fits
           THEN [thrown |-> FALSE,
                 store |-> [store EXCEPT !.localStorage = JSONstringify(p)]]
           ELSE [thrown |-> TRUE, store |-> store]
    ELSE [thrown |-> FALSE, store |-> [store EXCEPT !.inMemoryPlaylist = p]]

\* getPlaylist(): lines 219-229, up to simulateNetwork()
getPlaylist(id, available, store, t, fits) ==
  LET existing == readFromStorage(available, store)
  IN IF existing.present /\ existing.id = id
       THEN [thrown |-> FALSE, value |-> existing, store |-> store]
       ELSE LET fresh == createDefaultPlaylist(t)
                written == writeToStorage(available, store, fresh, fits)
            IN [thrown |-> written.thrown,
                value |-> IF written.thrown THEN NoPlaylist ELSE fresh,
                store |-> written.store]

\* faulty variant of savePlaylist(): the payload is returned, not written
savePlaylist_withoutWrite(p, available, store, t, fits) ==
  [thrown |-> FALSE, value |-> [p EXCEPT !.updatedAt = t], store |-> store]

\* savePlaylist(): lines 231-239, up to simulateNetwork()
savePlaylist(p, available, store, t, fits) ==
  LET payload == [p EXCEPT !.updatedAt = t]
      written == writeToStorage(available, store, payload, fits)
  IN [thrown |-> written.thrown,
      value |-> IF written.thrown THEN NoPlaylist ELSE payload,
      store |-> written.store]

\* getPlaylistById(): lines 241-248
getPlaylistById(id, available, store, t, fits) ==
  LET existing == getPlaylist(DEFAULT_PLAYLIST_ID, available, store, t, fits)
  IN IF ~existing.thrown /\ existing.value.id # id
       THEN [existing EXCEPT !.value = NoPlaylist]
       ELSE existing

(***************************************************************************)
(* context/PlaylistContext.tsx (src/unnamed/part_001)                      *)
(***************************************************************************)
\* generatePlaylistItemId(): lines 30-36, an id that no playlist item has:
\* the first of the ids that are not in use
generatePlaylistItemId(used) ==
  CHOOSE id \in 1 .. Cardinality(used) + 1 :
    id \notin used /\ \A other \in 1 .. id - 1 : other \in used

\* clonePlaylist(): lines 38-47
clonePlaylist(p) ==
  IF ~p.present
    THEN NoPlaylist
    ELSE [p EXCEPT !.items = [i \in 1 .. Len(p.items) |-> p.items[i]]]

\* hasItem(): lines 183-192
hasItem(p, item) ==
  /\ p.present
  /\ \E i \in 1 .. Len(p.items) :
       p.items[i].id = item.id /\ p.items[i].type = item.type

\* faulty variant of addItem(): the new entry is put first
addItem_prepending(previous, item, newId, t) ==
  IF ~previous.present \/ hasItem(previous, item)
    THEN previous
    ELSE [previous EXCEPT
            !.updatedAt = t,
            !.items = <<[id |-> item.id, type |-> item.type, playlistItemId |-> newId]>>
                        \o previous.items]

\* addItem(): lines 73-99, the updater it passes to setPlaylist
addItem(previous, item, newId, t) ==
  IF ~previous.present
    THEN previous
    ELSE LET alreadyExists ==
               \E i \in 1 .. Len(previous.items) :
                 previous.items[i].id = item.id /\ previous.items[i].type = item.type
         IN IF alreadyExists
              THEN previous
              ELSE [previous EXCEPT
                      !.updatedAt = t,
                      !.items = Append(previous.items,
                         [id |-> item.id, type |-> item.type, playlistItemId |-> newId])]

\* removeItem(): lines 101-113
removeItem(previous, playlistItemId, t) ==
  IF ~previous.present
    THEN previous
    ELSE [previous EXCEPT
            !.updatedAt = t,
            !.items = SelectSeq(previous.items,
                                LAMBDA item : item.playlistItemId # playlistItemId)]

\* Array.prototype.splice(): the index its start argument stands for
spliceStart(len, start) ==
  IF start < 0
    THEN (IF len + start < 0 THEN 0 ELSE len + start)
    ELSE (IF start > len THEN len ELSE start)

\* items.splice(start, 1): the array left and the elements removed
spliceOut(items, start) ==
  LET at == spliceStart(Len(items), start)
  IN IF at < Len(items)
       THEN [left |-> SubSeq(items, 1, at) \o SubSeq(items, at + 2, Len(items)),
             removed |-> <<items[at + 1]>>]
       ELSE [left |-> items, removed |-> <<>>]

\* items.splice(start, 0, element)
spliceIn(items, start, element) ==
  LET at == spliceStart(Len(items), start)
  IN SubSeq(items, 1, at) \o <<element>> \o SubSeq(items, at + 1, Len(items))

\* faulty variant of moveItem(): the two entries change places
moveItem_swapping(previous, startIndex, destinationIndex, t) ==
  IF ~previous.present
       \/ ~(destinationIndex >= 0 /\ destinationIndex < Len(previous.items)
             /\ startIndex # destinationIndex)
       \/ ~(startIndex >= 0 /\ startIndex < Len(previous.items))
    THEN previous
    ELSE [previous EXCEPT
            !.updatedAt = t,
            !.items = [i \in 1 .. Len(previous.items) |->
                         IF i = startIndex + 1 THEN previous.items[destinationIndex + 1]
                         ELSE IF i = destinationIndex + 1 THEN previous.items[startIndex + 1]
                         ELSE previous.items[i]]]

\* moveItem(): lines 115-138; the indices count from 0
moveItem(previous, startIndex, destinationIndex, t) ==
  IF ~previous.present
    THEN previous
    ELSE LET withinBounds ==
               /\ destinationIndex >= 0
               /\ destinationIndex < Len(previous.items)
               /\ startIndex # destinationIndex
         IN IF ~withinBounds
              THEN previous
              ELSE LET taken == spliceOut(previous.items, startIndex)
                       moved == IF taken.removed = <<>> THEN Undefined
                                ELSE taken.removed[1]
                   IN [previous EXCEPT
                         !.updatedAt = t,
                         !.items = spliceIn(taken.left, destinationIndex, moved)]

\* updateMetadata(): lines 140-155; updates is a record of some of the
\* fields name, description, isPublic
updateMetadata(previous, updates, t) ==
  IF ~previous.present
    THEN previous
    ELSE [previous EXCEPT
            !.name = IF "name" \in DOMAIN updates THEN updates.name ELSE @,
            !.description =
               IF "description" \in DOMAIN updates THEN updates.description ELSE @,
            !.isPublic = IF "isPublic" \in DOMAIN updates THEN updates.isPublic ELSE @,
            !.updatedAt = t]

\* faulty variant of save()'s continuation: the saved playlist is dropped
saveSettled_keepingPlaylist(current, saved) == current

\* save(): lines 172-173, setPlaylist(saved) once savePlaylist() resolved
saveSettled(current, saved) == saved

(***************************************************************************)
(* pages/PublicPlaylist.tsx (src/src/pages/AuthPage.tsx, lines 508-652)    *)
(***************************************************************************)
PublicPlaylistPage(id) == [page |-> "PublicPlaylist", playlistId |-> id]
\* the playlistId of the routes visited; "" is the component without one
RouteIds == {DEFAULT_PLAYLIST_ID, OtherPlaylistId, ""}
Routes == {Dashboard} \cup {PublicPlaylistPage(id) : id \in RouteIds}

\* faulty variant of load(): a playlist that is not public is shown too
load_ignoringIsPublic(result) ==
  IF ~result.present
    THEN [status |-> "not-found", playlist |-> NoPlaylist]
    ELSE [status |-> "ready", playlist |-> result]

\* load(): lines 534-540, after getPlaylistById() resolved (not cancelled)
load(result) ==
  IF ~result.present \/ ~result.isPublic
    THEN [status |-> "not-found", playlist |-> NoPlaylist]
    ELSE [status |-> "ready", playlist |-> result]

(***************************************************************************)
(* The playlist pages: a page load, the dashboard's controls               *)
(* (components/PlaylistManager.tsx, components/MediaCard.tsx) and the       *)
(* timers of the mock API                                                  *)
(***************************************************************************)
Store == [localStorage |-> localStorage, inMemoryPlaylist |-> inMemoryPlaylist]

\* the variables after the effects of a page load ran: PublicPlaylist's
\* effect (the child's) before PlaylistProvider's; a promise that rejects
\* is handled in the same run of the event loop
PageLoad(path, available, store, t, fits) ==
  LET isPublicPage == path.page = "PublicPlaylist"
      hasId == isPublicPage /\ path.playlistId # ""
      found == getPlaylistById(path.playlistId, available, store, t, fits)
      between == IF hasId THEN found.store ELSE store
      current == getPlaylist(DEFAULT_PLAYLIST_ID, available, between, t, fits)
  IN [store |-> current.store,
      playlistError |-> IF current.thrown
                          THEN "Unable to load your playlist right now." ELSE Null,
      isLoading |-> ~current.thrown,
      loading |-> [active |-> ~current.thrown, value |-> current.value],
      publicStatus |-> IF isPublicPage /\ ~hasId THEN "not-found"
                       ELSE IF hasId /\ found.thrown THEN "error"
                       ELSE "loading",
      publicLoad |-> [active |-> hasId /\ ~found.thrown,
                      value |-> IF hasId THEN found.value ELSE NoPlaylist]]

\* the playlistItemIds some playlist of the page or of the storage holds
idsOf(p) == {p.items[i].playlistItemId : i \in 1 .. Len(p.items)}
UsedPlaylistItemIds ==
  idsOf(playlist) \cup idsOf(localStorage.value) \cup idsOf(inMemoryPlaylist)
    \cup idsOf(loading.value) \cup idsOf(saving.value)
    \cup idsOf(publicLoad.value) \cup idsOf(publicPlaylist)

\* DiscoverySection: canMutate (pages/Dashboard.tsx)
canMutate == ~isLoading /\ playlist.present
OnDashboard == route = Dashboard

\* an edit of the playlist: setPlaylist(updater), noted by a save in flight
Edited(next, kind) ==
  /\ playlist' = next
  /\ saving' = IF saving.active THEN [saving EXCEPT !.edited = TRUE] ELSE saving
  /\ plast' = [kind |-> kind]
  /\ UNCHANGED <<storageVars, now, isLoading, isSaving, playlistError, loading,
                 route, publicPlaylistVars, notPlaylistVars>>

\* MediaCard.handleAdd(): the card is disabled while the playlist loads and
\* when the item is in it
MediaCardAdd(item) ==
  /\ OnDashboard /\ canMutate /\ ~hasItem(playlist, item)
  /\ Edited(addItem(playlist, item, generatePlaylistItemId(UsedPlaylistItemIds), now),
            "addItem")

\* PlaylistManager: the remove-item button of an entry
RemoveItemClick(index) ==
  /\ OnDashboard /\ canMutate
  /\ index \in 0 .. Len(playlist.items) - 1
  /\ Edited(removeItem(playlist, playlist.items[index + 1].playlistItemId, now),
            "removeItem")

\* PlaylistManager: move-item-up (disabled for the first entry) and
\* move-item-down (disabled for the last)
MoveItemClick(index, by) ==
  /\ OnDashboard /\ canMutate
  /\ index \in 0 .. Len(playlist.items) - 1
  /\ by \in {-1, 1}
  /\ by = -1 => index # 0
  /\ by = 1 => index # Len(playlist.items) - 1
  /\ Edited(moveItem(playlist, index, index + by, now), "moveItem")

\* PlaylistManager: the title, description and public controls
MetadataUpdates ==
  {[name |-> n] : n \in Names} \cup {[description |-> d] : d \in Descriptions}
    \cup {[isPublic |-> b] : b \in BOOLEAN}
\* the changes made on the pages that save and share the playlist
SavedUpdates ==
  {[name |-> DefaultName], [description |-> DefaultDescription]}
    \cup {[isPublic |-> b] : b \in BOOLEAN}

UpdateMetadataChange(updates) ==
  /\ OnDashboard /\ canMutate
  /\ Edited(updateMetadata(playlist, updates, now), "updateMetadata")

\* PlaylistManager: the disabled attribute of the 'Save playlist' button
SaveDisabled == isSaving \/ Len(playlist.items) = 0

\* PlaylistManager.handleSave() and save(): lines 157-181, up to the await;
\* the button is disabled while isSaving and for an empty playlist
HandleSave(fits) ==
  /\ OnDashboard /\ canMutate
  /\ ~SaveDisabled
  /\ LET clone == clonePlaylist(playlist)
         saved == savePlaylist(clone, localStorageAvailable, Store, now, fits)
     IN /\ localStorage' = saved.store.localStorage
        /\ inMemoryPlaylist' = saved.store.inMemoryPlaylist
        /\ IF saved.thrown
             THEN /\ playlistError' = "We hit a snag while saving. Please try again."
                  /\ plast' = [NoPlaylistEvent EXCEPT !.kind = "saveRejected"]
                  /\ UNCHANGED <<isSaving, saving>>
             ELSE /\ playlistError' = Null
                  /\ isSaving' = TRUE
                  /\ saving' = [active |-> TRUE, value |-> saved.value, edited |-> FALSE]
                  /\ plast' = [NoPlaylistEvent EXCEPT !.kind = "save"]
  /\ UNCHANGED <<localStorageAvailable, now, playlist, isLoading, loading, route,
                 publicPlaylistVars, notPlaylistVars>>

\* save(): lines 172-179, savePlaylist() resolved after its 420 ms
SaveSettles ==
  /\ saving.active
  /\ playlist' = saveSettled(playlist, saving.value)
  /\ isSaving' = FALSE
  /\ saving' = NoSave
  /\ plast' = [kind |-> "saveResolved"]
  /\ UNCHANGED <<storageVars, now, isLoading, playlistError, loading, route,
                 publicPlaylistVars, notPlaylistVars>>

\* loadPlaylist(): lines 59-66, getPlaylist() resolved after its 320 ms;
\* the timer of PublicPlaylist's load, started before it, fires first
LoadPlaylistSettles ==
  /\ loading.active /\ ~publicLoad.active
  /\ playlist' = loading.value
  /\ isLoading' = FALSE
  /\ loading' = NoPromise
  /\ plast' = [NoPlaylistEvent EXCEPT !.kind = "loaded"]
  /\ UNCHANGED <<storageVars, now, isSaving, playlistError, saving, route,
                 publicPlaylistVars, notPlaylistVars>>

\* PublicPlaylist.load(): lines 529-540, getPlaylistById() resolved
PublicPlaylistSettles ==
  /\ publicLoad.active
  /\ LET shown == load(publicLoad.value)
     IN /\ publicStatus' = shown.status
        /\ publicPlaylist' = shown.playlist
  /\ publicLoad' = NoPromise
  /\ plast' = [NoPlaylistEvent EXCEPT !.kind = "publicLoaded"]
  /\ UNCHANGED <<storageVars, now, playlistProviderVars, route, notPlaylistVars>>

\* the browser loads a page of the application: every component mounts
\* anew, the module variable inMemoryPlaylist starts as null, localStorage
\* is kept
Visit(path, fits) ==
  /\ LET s == PageLoad(path, localStorageAvailable,
                       [Store EXCEPT !.inMemoryPlaylist = NoPlaylist], now, fits)
     IN /\ localStorage' = s.store.localStorage
        /\ inMemoryPlaylist' = s.store.inMemoryPlaylist
        /\ playlistError' = s.playlistError
        /\ isLoading' = s.isLoading
        /\ loading' = s.loading
        /\ publicStatus' = s.publicStatus
        /\ publicLoad' = s.publicLoad
  /\ playlist' = NoPlaylist /\ isSaving' = FALSE /\ saving' = NoSave
  /\ publicPlaylist' = NoPlaylist
  /\ route' = path
  /\ plast' = [NoPlaylistEvent EXCEPT !.kind = "visit"]
  /\ UNCHANGED <<localStorageAvailable, now, notPlaylistVars>>

\* Layout: the brand link to "/" (components/Layout.tsx): PublicPlaylist
\* unmounts, its effect's cleanup sets cancelled
NavigateHome ==
  /\ route.page = "PublicPlaylist"
  /\ route' = Dashboard
  /\ publicLoad' = NoPromise
  /\ publicStatus' = "loading" /\ publicPlaylist' = NoPlaylist
  /\ plast' = [NoPlaylistEvent EXCEPT !.kind = "home"]
  /\ UNCHANGED <<storageVars, now, playlistProviderVars, notPlaylistVars>>

\* time passes between two runs of the event loop
Tick ==
  /\ now < MaxClock
  /\ now' = now + 1
  /\ plast' = [NoPlaylistEvent EXCEPT !.kind = "tick"]
  /\ UNCHANGED <<storageVars, playlistProviderVars, route, publicPlaylistVars,
                 notPlaylistVars>>

\* what localStorage may hold when the application is first opened
InitialItems == {NoItem, Unparsable, JSONstringify(ForeignPlaylist)}

\* the browser before the application is opened in it
NoPage == [page |-> "none", playlistId |-> ""]

InitPlaylist ==
  /\ tokenCache = Null
  /\ calls = [i \in Slots |-> Idle]
  /\ last = NoEvent
  /\ user = Null /\ status = "unauthenticated" /\ error = Null
  /\ isProcessing = FALSE /\ mounted = TRUE
  /\ LoginPageIdle
  /\ localStorageAvailable \in BOOLEAN
  /\ localStorage \in (IF localStorageAvailable THEN InitialItems ELSE {NoItem})
  /\ inMemoryPlaylist = NoPlaylist
  /\ now = 0
  /\ playlist = NoPlaylist /\ isLoading = FALSE /\ isSaving = FALSE
  /\ playlistError = Null /\ loading = NoPromise /\ saving = NoSave
  /\ route = NoPage
  /\ publicStatus = "loading" /\ publicPlaylist = NoPlaylist /\ publicLoad = NoPromise
  /\ plast = NoPlaylistEvent
  /\ DiscoveryIdle

NextPlaylist ==
  \/ \E item \in SavedMedia : MediaCardAdd(item)
  \/ \E index \in 0 .. Cardinality(Media) - 1 : RemoveItemClick(index)
  \/ \E index \in 0 .. Cardinality(Media) - 1 : \E by \in {-1, 1} : MoveItemClick(index, by)
  \/ \E updates \in SavedUpdates : UpdateMetadataChange(updates)
  \/ \E fits \in BOOLEAN : HandleSave(fits)
  \/ SaveSettles
  \/ LoadPlaylistSettles
  \/ PublicPlaylistSettles
  \/ \E path \in Routes : \E fits \in BOOLEAN : Visit(path, fits)
  \/ NavigateHome
  \/ Tick

SpecPlaylist == InitPlaylist /\ [][NextPlaylist]_vars

\* the dashboard once the default playlist is loaded, and its editing
\* controls alone
InitEditor ==
  /\ tokenCache = Null
  /\ calls = [i \in Slots |-> Idle]
  /\ last = NoEvent
  /\ user = Null /\ status = "unauthenticated" /\ error = Null
  /\ isProcessing = FALSE /\ mounted = TRUE
  /\ LoginPageIdle
  /\ localStorageAvailable = TRUE
  /\ localStorage = JSONstringify(createDefaultPlaylist(0))
  /\ inMemoryPlaylist = NoPlaylist
  /\ now = 0
  /\ playlist = createDefaultPlaylist(0)
  /\ isLoading = FALSE /\ isSaving = FALSE /\ playlistError = Null
  /\ loading = NoPromise /\ saving = NoSave
  /\ route = Dashboard
  /\ publicStatus = "loading" /\ publicPlaylist = NoPlaylist /\ publicLoad = NoPromise
  /\ plast = [NoPlaylistEvent EXCEPT !.kind = "loaded"]
  /\ DiscoveryIdle

NextEditor ==
  \/ \E item \in Media : MediaCardAdd(item)
  \/ \E index \in 0 .. Cardinality(Media) - 1 : RemoveItemClick(index)
  \/ \E index \in 0 .. Cardinality(Media) - 1 : \E by \in {-1, 1} : MoveItemClick(index, by)
  \/ \E updates \in MetadataUpdates : UpdateMetadataChange(updates)
  \/ Tick

SpecEditor == InitEditor /\ [][NextEditor]_vars

(***************************************************************************)
(* services/api.ts: the catalogue queries and the recommendations          *)
(***************************************************************************)
\* longest playlist the recommendations are computed for
MaxPlaylistLen == 3

GenreBoost == 18
MoodBoost == 12
VarietyBoost == 4
RecommendationLimit == 6
PopularLimit == 12
SearchLimit == 20

\* data/mockData: movieCatalog and musicCatalog.  Strings are sequences of
\* characters; an item without tags has none (item.tags ?? [])
movieCatalog ==
  <<[id |-> "1", type |-> "movie", title |-> <<"A", "b">>, creator |-> <<"x">>,
     description |-> <<"c">>, releaseYear |-> 2010, popularity |-> 90,
     genres |-> <<<<"A">>>>, moods |-> <<<<"C">>>>, tags |-> <<<<"t">>>>],
    [id |-> "2", type |-> "movie", title |-> <<"b">>, creator |-> <<"y">>,
     description |-> <<"c", "e">>, releaseYear |-> 2020, popularity |-> 70,
     genres |-> <<<<"B">>>>, moods |-> <<<<"E">>>>, tags |-> <<>>],
    [id |-> "3", type |-> "movie", title |-> <<"c">>, creator |-> <<"x">>,
     description |-> <<"e">>, releaseYear |-> 2015, popularity |-> 70,
     genres |-> <<<<"a">>, <<"B">>>>, moods |-> <<<<"c">>>>, tags |-> <<<<"t">>, <<"A">>>>]>>
musicCatalog ==
  <<[id |-> "1", type |-> "music", title |-> <<"E">>, creator |-> <<"y">>,
     description |-> <<"b">>, releaseYear |-> 2020, popularity |-> 85,
     genres |-> <<<<"B">>>>, moods |-> <<<<"C">>>>, tags |-> <<>>],
    [id |-> "2", type |-> "music", title |-> <<"a", "c">>, creator |-> <<"x">>,
     description |-> <<"e">>, releaseYear |-> 2005, popularity |-> 80,
     genres |-> <<<<"A">>>>, moods |-> <<<<"E">>>>, tags |-> <<<<"t">>>>],
    [id |-> "3", type |-> "music", title |-> <<"e">>, creator |-> <<"y">>,
     description |-> <<"a">>, releaseYear |-> 2015, popularity |-> 60,
     genres |-> <<<<"b">>>>, moods |-> <<<<"c">>, <<"E">>>>, tags |-> <<>>],
    [id |-> "4", type |-> "music", title |-> <<"b", "e">>, creator |-> <<"x">>,
     description |-> <<"c">>, releaseYear |-> 2010, popularity |-> 85,
     genres |-> <<<<"C">>>>, moods |-> <<<<"E">>>>, tags |-> <<<<"B">>>>],
    [id |-> "5", type |-> "music", title |-> <<"u">>, creator |-> <<"y">>,
     description |-> <<"u">>, releaseYear |-> 2000, popularity |-> 90,
     genres |-> <<<<"C">>>>, moods |-> <<<<"c">>>>, tags |-> <<>>]>>

\* makeUniqueKey(): `${item.type}:${item.id}`
makeUniqueKey(item) == <<item.type, item.id>>

\* mediaLibrary
mediaLibrary == [movie |-> movieCatalog, music |-> musicCatalog]

\* Array.prototype.slice(0, end)
slice(items, end) ==
  LET stop == IF end < 0
                THEN (IF Len(items) + end < 0 THEN 0 ELSE Len(items) + end)
                ELSE (IF end > Len(items) THEN Len(items) ELSE end)
  IN SubSeq(items, 1, stop)

\* Array.prototype.sort((a, b) => key(b) - key(a)), a stable sort: keys[i] is
\* the key of items[i], equal keys keep their order
sortDescending(items, keys) ==
  LET n == Len(items)
      position(i) == 1 + Cardinality({j \in 1 .. n :
                           keys[j] > keys[i] \/ (keys[j] = keys[i] /\ j < i)})
  IN [p \in 1 .. n |-> items[CHOOSE i \in 1 .. n : position(i) = p]]

\* faulty variant of sortMedia(): always by popularity
sortMedia_byPopularityOnly(items, sortBy) ==
  sortDescending(items, [i \in 1 .. Len(items) |-> items[i].popularity])

\* sortMedia(): lines 74-81
sortMedia(items, sortBy) ==
  IF sortBy = "latest"
    THEN sortDescending(items, [i \in 1 .. Len(items) |-> items[i].releaseYear])
    ELSE sortDescending(items, [i \in 1 .. Len(items) |-> items[i].popularity])

\* normalize(): value.trim().toLowerCase()
normalize(value) == toLowerCase(trim(value))

\* an optional string or number argument that is given
Text(s) == [given |-> TRUE, value |-> s]
Limit(n) == [given |-> TRUE, value |-> n]
\* JavaScript truthiness of an optional string
TruthyText(text) == text.given /\ text.value # <<>>

\* applyFilters(): lines 85-111
applyFilters(items, filters) ==
  LET matches(item) ==
        /\ TruthyText(filters.genre) =>
             \E k \in 1 .. Len(item.genres) :
               normalize(item.genres[k]) = normalize(filters.genre.value)
        /\ TruthyText(filters.mood) =>
             \E k \in 1 .. Len(item.moods) :
               normalize(item.moods[k]) = normalize(filters.mood.value)
  IN SelectSeq(items, matches)

\* Array.prototype.join(' ')
RECURSIVE join(_)
join(strings) ==
  IF strings = <<>> THEN <<>>
  ELSE IF Len(strings) = 1 THEN strings[1]
  ELSE strings[1] \o <<" ">> \o join(Tail(strings))

\* String.prototype.includes()
includes(text, part) ==
  \E at \in 0 .. Len(text) - Len(part) : SubSeq(text, at + 1, at + Len(part)) = part

\* applySearch(): the text of an item that is searched
haystack(item) ==
  toLowerCase(join(<<item.title, item.description, item.creator>> \o item.tags))

\* applySearch(): lines 113-127
applySearch(items, search) ==
  IF ~TruthyText(search)
    THEN items
    ELSE LET normalizedSearch == normalize(search.value)
             found(item) == includes(haystack(item), normalizedSearch)
         IN SelectSeq(items, found)

\* fetchMedia(): lines 183-200
fetchMedia(options) ==
  LET mediaType == IF options.mediaType = Null THEN "all" ELSE options.mediaType
      sortBy == IF options.sortBy = Null THEN "popularity" ELSE options.sortBy
      items == IF mediaType = "all"
                 THEN movieCatalog \o musicCatalog
                 ELSE mediaLibrary[mediaType]
      filtered == applyFilters(items, [genre |-> options.genre, mood |-> options.mood])
      searched == applySearch(filtered, options.search)
      sorted == sortMedia(searched, sortBy)
  IN IF options.limit.given THEN slice(sorted, options.limit.value) ELSE sorted

\* { mediaType, ...filters }: a media type among the filters replaces the
\* argument
spread(mediaType, filters) ==
  IF filters.mediaType # Null THEN filters.mediaType ELSE mediaType

\* getPopularMedia(): lines 202-208
getPopularMedia(mediaType, filters, limit) ==
  fetchMedia([mediaType |-> spread(IF mediaType = Null THEN "all" ELSE mediaType, filters),
              genre |-> filters.genre, mood |-> filters.mood,
              search |-> NoText,
              limit |-> IF limit.given THEN limit ELSE Limit(PopularLimit),
              sortBy |-> "popularity"])

\* searchMedia(): lines 210-217
searchMedia(search, mediaType, filters, limit) ==
  fetchMedia([mediaType |-> spread(IF mediaType = Null THEN "all" ELSE mediaType, filters),
              genre |-> filters.genre, mood |-> filters.mood,
              sortBy |-> filters.sortBy,
              search |-> search,
              limit |-> IF limit.given THEN limit ELSE Limit(SearchLimit)])

\* the MediaItem a playlist entry was made of ({ ...item, playlistItemId })
mediaOf(entry) ==
  LET pool == movieCatalog \o musicCatalog
  IN pool[CHOOSE i \in 1 .. Len(pool) : makeUniqueKey(pool[i]) = makeUniqueKey(entry)]

\* Array.prototype.flatMap()
RECURSIVE flat(_)
flat(arrays) == IF arrays = <<>> THEN <<>> ELSE Head(arrays) \o flat(Tail(arrays))

\* tally(): the Map, as its entries in the order of insertion
tally(items) ==
  LET keys == [i \in 1 .. Len(items) |-> toLowerCase(items[i])]
      firsts == {i \in 1 .. Len(keys) : \A j \in 1 .. i - 1 : keys[j] # keys[i]}
      nth(k) == CHOOSE i \in firsts : Cardinality({j \in firsts : j < i}) = k - 1
  IN [k \in 1 .. Cardinality(firsts) |->
        [key |-> keys[nth(k)],
         count |-> Cardinality({j \in 1 .. Len(keys) : keys[j] = keys[nth(k)]})]]

\* getTopValues(): lines 258-263
getTopValues(counts) ==
  LET sorted == slice(sortDescending(counts, [k \in 1 .. Len(counts) |-> counts[k].count]), 2)
  IN [k \in 1 .. Len(sorted) |-> sorted[k].key]

\* faulty variant of firstAmong(): the values are compared as they are written
firstAmong_caseSensitive(top, values) ==
  LET hits == {k \in 1 .. Len(top) :
                 \E v \in 1 .. Len(values) : values[v] = top[k]}
  IN IF hits = {} THEN NoText
     ELSE Text(top[CHOOSE k \in hits : \A other \in hits : k <= other])

\* Array.prototype.find() over the top values: the first one among the
\* lower-cased values of the item, or nothing
firstAmong(top, values) ==
  LET hits == {k \in 1 .. Len(top) :
                 \E v \in 1 .. Len(values) : toLowerCase(values[v]) = top[k]}
  IN IF hits = {} THEN NoText
     ELSE Text(top[CHOOSE k \in hits : \A other \in hits : k <= other])

\* a reason: the words of the template and the genre or mood put into it
\* (the readable names are looked up in tables of data/mockData; the key
\* stands for them)
Reason(text, about) == [text |-> text, about |-> about]

\* getRecommendations(): the entries before the sort, lines 280-316
scored(p) ==
  LET pool == movieCatalog \o musicCatalog
      entries == IF p.present THEN p.items ELSE <<>>
      excluded == {makeUniqueKey(entries[i]) : i \in 1 .. Len(entries)}
      personal == p.present /\ Len(p.items) > 0
      topGenres == IF personal
                     THEN getTopValues(tally(flat([i \in 1 .. Len(entries) |->
                                                     mediaOf(entries[i]).genres])))
                     ELSE <<>>
      topMoods == IF personal
                    THEN getTopValues(tally(flat([i \in 1 .. Len(entries) |->
                                                    mediaOf(entries[i]).moods])))
                    ELSE <<>>
      hasMovie == \E i \in 1 .. Len(entries) : entries[i].type = "movie"
      hasMusic == \E i \in 1 .. Len(entries) : entries[i].type = "music"
      candidate(item) == makeUniqueKey(item) \notin excluded
      entry(item) ==
        LET matchingGenre == firstAmong(topGenres, item.genres)
            matchingMood == firstAmong(topMoods, item.moods)
            affinity == IF TruthyText(matchingGenre) THEN GenreBoost
                        ELSE IF TruthyText(matchingMood) THEN MoodBoost
                        ELSE 0
            variety == (IF personal /\ hasMovie /\ item.type = "music" THEN VarietyBoost ELSE 0)
                       + (IF personal /\ hasMusic /\ item.type = "movie" THEN VarietyBoost ELSE 0)
        IN [item |-> item,
            score |-> item.popularity + affinity + variety,
            reason |-> IF TruthyText(matchingGenre)
                         THEN Reason("Because you enjoy", matchingGenre.value)
                       ELSE IF TruthyText(matchingMood)
                         THEN Reason("Matches your mood", matchingMood.value)
                       ELSE Reason("Trending with our community", <<>>)]
      remaining == SelectSeq(pool, candidate)
  IN [i \in 1 .. Len(remaining) |-> entry(remaining[i])]

\* faulty variant of getRecommendations(): the entries are not sorted
getRecommendations_unsorted(p) ==
  LET top == slice(scored(p), RecommendationLimit)
  IN [i \in 1 .. Len(top) |-> [item |-> top[i].item, reason |-> top[i].reason]]

\* getRecommendations(): lines 265-330
getRecommendations(p) ==
  LET entries == scored(p)
      top == slice(sortDescending(entries, [i \in 1 .. Len(entries) |-> entries[i].score]),
                   RecommendationLimit)
  IN [i \in 1 .. Len(top) |-> [item |-> top[i].item, reason |-> top[i].reason]]

(***************************************************************************)
(* The catalogue queries                                                   *)
(***************************************************************************)
MediaTypes == {Null, "all", "movie", "music"}
SortOptions == {Null, "popularity", "latest"}
\* genres and moods chosen, with white space and in another case
Genres == {NoText, Text(<<" ", "a">>), Text(<<"B">>)}
Moods == {NoText, Text(<<"c", " ">>)}
\* search texts: none, empty, of one word, of two words, found nowhere
Searches == {NoText, Text(<<>>), Text(<<" ", "C">>), Text(<<"b", " ", "c">>), Text(<<"z">>)}
Limits == {NoLimit, Limit(0), Limit(2)}
\* a MediaFilter
Filters == [mediaType : MediaTypes, genre : Genres, mood : Moods, sortBy : SortOptions]

\* the arguments a query may be called with
MediaArguments ==
  {[NoMediaCall EXCEPT !.mediaType = mediaType, !.filters = filters,
                       !.search = search, !.limit = limit] :
     mediaType \in MediaTypes, filters \in Filters, search \in Searches, limit \in Limits}

MediaCalled(call, items) ==
  /\ media.call = "none"
  /\ media' = [media EXCEPT !.call = call, !.items = items]
  /\ UNCHANGED <<recommendations, grid, feeds, notDiscoveryVars>>

\* fetchMedia(options): the options are the filters, search and limit
FetchMedia ==
  MediaCalled("fetchMedia",
              fetchMedia([mediaType |-> media.filters.mediaType,
                          genre |-> media.filters.genre, mood |-> media.filters.mood,
                          sortBy |-> media.filters.sortBy,
                          search |-> media.search, limit |-> media.limit]))

\* getPopularMedia(mediaType, filters, limit)
GetPopularMedia ==
  MediaCalled("getPopularMedia",
              getPopularMedia(media.mediaType, media.filters, media.limit))

\* searchMedia(search, mediaType, filters, limit): search is a string
SearchMedia ==
  /\ media.search.given
  /\ MediaCalled("searchMedia",
                 searchMedia(media.search, media.mediaType, media.filters, media.limit))

\* the dashboard with the default playlist loaded and a query about to be
\* made
InitMedia ==
  /\ tokenCache = Null
  /\ calls = [i \in Slots |-> Idle]
  /\ last = NoEvent
  /\ user = Null /\ status = "unauthenticated" /\ error = Null
  /\ isProcessing = FALSE /\ mounted = TRUE
  /\ LoginPageIdle
  /\ PlaylistPagesIdle
  /\ media \in MediaArguments
  /\ recommendations = NoRecommendations
  /\ grid = NoGrid /\ feeds = [h \in Hooks |-> NoFeed]

NextMedia ==
  \/ FetchMedia
  \/ GetPopularMedia
  \/ SearchMedia

SpecMedia == InitMedia /\ [][NextMedia]_vars

(***************************************************************************)
(* RecommendationGrid: the recommendations for the playlist shown          *)
(***************************************************************************)
\* the playlists made of up to MaxPlaylistLen items of the catalogue, each
\* added once, and no playlist (null)
CataloguePlaylists ==
  LET pool == movieCatalog \o musicCatalog
      picks == {s \in UNION {[1 .. n -> 1 .. Len(pool)] : n \in 0 .. MaxPlaylistLen} :
                  \A i, j \in 1 .. Len(s) : s[i] = s[j] => i = j}
  IN {NoPlaylist} \cup
     {[createDefaultPlaylist(0) EXCEPT
         !.items = [i \in 1 .. Len(s) |->
                      [id |-> pool[s[i]].id, type |-> pool[s[i]].type,
                       playlistItemId |-> i]]] : s \in picks}

\* loadRecommendations(): setRecommendations(await getRecommendations(playlist))
LoadRecommendations ==
  /\ recommendations' = [loaded |-> TRUE, items |-> getRecommendations(playlist)]
  /\ UNCHANGED <<media, grid, feeds, notDiscoveryVars>>

InitRecommendations ==
  /\ tokenCache = Null
  /\ calls = [i \in Slots |-> Idle]
  /\ last = NoEvent
  /\ user = Null /\ status = "unauthenticated" /\ error = Null
  /\ isProcessing = FALSE /\ mounted = TRUE
  /\ LoginPageIdle
  /\ localStorageAvailable = TRUE /\ localStorage = NoItem
  /\ inMemoryPlaylist = NoPlaylist /\ now = 0
  /\ playlist \in CataloguePlaylists
  /\ isLoading = FALSE /\ isSaving = FALSE
  /\ playlistError = Null /\ loading = NoPromise /\ saving = NoSave
  /\ route = Dashboard /\ publicStatus = "loading" /\ publicPlaylist = NoPlaylist
  /\ publicLoad = NoPromise /\ plast = NoPlaylistEvent
  /\ DiscoveryIdle

NextRecommendations == LoadRecommendations

SpecRecommendations == InitRecommendations /\ [][NextRecommendations]_vars

(***************************************************************************)
(* The guarded App: AuthGuard, PublicOnlyGuard and the routes (App.tsx,    *)
(* the second variant in src/unnamed/part_002)                             *)
(***************************************************************************)
\* "/s" stands for /signup, "/y" for a /playlist/:playlistId, "/x" for a
\* path no route matches
HomePath == <<"/">>
SignupPath == <<"/", "s">>
ProfilePath == <<"/", "p">>
PlaylistPath == <<"/", "y">>
Paths == {HomePath, LoginPath, SignupPath, ProfilePath, PlaylistPath, <<"/", "x">>}
\* the addresses a link or the address bar leads to
Urls == {[pathname |-> path, search |-> search, hash |-> hash, state |-> NoLocationState] :
           path \in Paths, search \in {<<>>, <<"?", "q">>}, hash \in {<<>>, <<"#", "h">>}}

\* what a route element renders: the loading placeholder, a <Navigate>, the
\* <Outlet /> of a guard, or a page
Placeholder == [kind |-> "placeholder", page |-> "none", to |-> <<>>, state |-> NoLocationState]
Outlet == [kind |-> "outlet", page |-> "none", to |-> <<>>, state |-> NoLocationState]
Navigate(to, state) == [kind |-> "navigate", page |-> "none", to |-> to, state |-> state]
Page(page) == [kind |-> "page", page |-> page, to |-> <<>>, state |-> NoLocationState]

\* faulty variant of AuthGuard: no placeholder while the session loads
AuthGuard_withoutPlaceholder(st, loc) ==
  IF st # "authenticated"
    THEN Navigate(LoginPath, [object |-> TRUE, hasFrom |-> TRUE,
                              from |-> loc.pathname \o loc.search \o loc.hash])
    ELSE Outlet

\* AuthGuard: lines 4-23; isLoading and isAuthenticated are derived from
\* the status (AuthContext, lines 297-298)
AuthGuard(st, loc) ==
  IF st = "loading" THEN Placeholder
  ELSE IF ~(st = "authenticated")
    THEN Navigate(LoginPath, [object |-> TRUE, hasFrom |-> TRUE,
                              from |-> loc.pathname \o loc.search \o loc.hash])
    ELSE Outlet

\* PublicOnlyGuard: lines 4-23
PublicOnlyGuard(st, loc) ==
  IF st = "loading" THEN Placeholder
  ELSE IF st = "authenticated"
    THEN Navigate(IF loc.state.object /\ loc.state.hasFrom /\ loc.state.from # <<>>
                    THEN loc.state.from ELSE HomePath,
                  NoLocationState)
    ELSE Outlet

\* App: the element the routes render at a location (lines 30-47)
App(st, loc) ==
  LET guarded(guard, page) == IF guard.kind = "outlet" THEN Page(page) ELSE guard
  IN IF loc.pathname = LoginPath THEN guarded(PublicOnlyGuard(st, loc), "Login")
     ELSE IF loc.pathname = SignupPath THEN guarded(PublicOnlyGuard(st, loc), "Signup")
     ELSE IF loc.pathname = HomePath THEN guarded(AuthGuard(st, loc), "Dashboard")
     ELSE IF loc.pathname = ProfilePath THEN guarded(AuthGuard(st, loc), "Profile")
     ELSE IF loc.pathname = PlaylistPath THEN Page("PublicPlaylist")
     ELSE Navigate(HomePath, NoLocationState)

Shown == App(status, location)

\* the effect of a rendered <Navigate to state replace />
NavigateRenders ==
  /\ Shown.kind = "navigate"
  /\ location' = navigate(Shown.to, Shown.state)
  /\ UNCHANGED <<authVars, email, password, fieldErrors, submitError, pending, submitted,
                 playlistVars, discoveryVars>>

\* the user follows a link, or a page calls navigate(), once the routes
\* have settled
FollowLink(url) ==
  /\ Shown.kind # "navigate"
  /\ location' = url
  /\ UNCHANGED <<authVars, email, password, fieldErrors, submitError, pending, submitted,
                 playlistVars, discoveryVars>>

\* the pages call the provider: Login and Signup submit their form, Layout
\* has the 'Log out' button while authenticated, Profile saves the
\* preferences; each control is disabled while isProcessing is set
LoginPageSubmits(i) ==
  Shown = Page("Login") /\ ~isProcessing /\ AuthProviderLogin(i)
SignupPageSubmits(i) ==
  Shown = Page("Signup") /\ ~isProcessing /\ AuthProviderSignup(i)
LayoutLogoutClick(i) ==
  status = "authenticated" /\ ~isProcessing /\ AuthProviderLogout(i)
ProfilePageSubmits(i) ==
  Shown = Page("Profile") /\ ~isProcessing /\ AuthProviderUpdateProfile(i)

\* the application opened at some address: the provider has just mounted
InitGuard ==
  /\ tokenCache = Null
  /\ calls = [i \in Slots |->
                IF i = 1
                  THEN [op |-> "resolveSession", caller |-> "provider",
                        reqs |-> <<Line(HydrateRequest)>>, refreshed |-> Null,
                        undisturbed |-> TRUE]
                  ELSE Idle]
  /\ last = [NoEvent EXCEPT !.kind = "request", !.op = "resolveSession",
               !.caller = "provider", !.req = HydrateRequest,
               !.reqs = <<Line(HydrateRequest)>>, !.statusBefore = "loading"]
  /\ user = Null /\ status = "loading" /\ error = Null
  /\ isProcessing = FALSE /\ mounted = TRUE
  /\ email = <<>> /\ password = <<>>
  /\ fieldErrors = [email |-> Null, password |-> Null]
  /\ submitError = Null /\ pending = FALSE
  /\ location \in Urls
  /\ submitted = NoSubmit
  /\ PlaylistPagesIdle
  /\ DiscoveryIdle

NextGuard ==
  \/ NavigateRenders
  \/ \E url \in Urls : FollowLink(url)
  \/ \E i \in Slots : LoginPageSubmits(i)
  \/ \E i \in Slots : SignupPageSubmits(i)
  \/ \E i \in Slots : LayoutLogoutClick(i)
  \/ \E i \in Slots : ProfilePageSubmits(i)
  \/ \E i \in Slots :
       \E r \in Failures \cup ProfileResponses \cup RenewalResponses :
         AuthProviderHydrates(i, r)
  \/ \E i \in Slots : \E r \in Failures \cup SessionResponses : AuthProviderLoginSettles(i, r)
  \/ \E i \in Slots : \E r \in Failures \cup SessionResponses : AuthProviderSignupSettles(i, r)
  \/ \E i \in Slots : \E r \in Failures \cup VoidResponses : AuthProviderLogoutSettles(i, r)
  \/ \E i \in Slots :
       \E r \in Failures \cup ProfileResponses : AuthProviderUpdateProfileSettles(i, r)

SpecGuard == InitGuard /\ [][NextGuard]_vars

(***************************************************************************)
(* The playlist context called directly: usePlaylist() hands addItem,      *)
(* removeItem, moveItem, updateMetadata, save, reset and hasItem to any    *)
(* component, with any arguments (src/unnamed/part_001, lines 198-214)     *)
(***************************************************************************)
MaxEntries == 2           \* moveItem() lengthens the array up to this

\* items.some(callback) and items.filter(callback) with a callback that
\* reads a property of the entry: reading one of undefined throws a
\* TypeError. some() stops at the first entry that matches
someThrows(items, item) ==
  \E i \in 1 .. Len(items) :
    /\ items[i] = Undefined
    /\ \A j \in 1 .. i - 1 : ~(items[j].id = item.id /\ items[j].type = item.type)
filterThrows(items) == \E i \in 1 .. Len(items) : items[i] = Undefined

\* addItem(item): lines 73-99
CallAddItem(item) ==
  /\ playlist.present /\ ~someThrows(playlist.items, item)
  /\ Len(playlist.items) < MaxEntries \/ hasItem(playlist, item)
  /\ Edited(addItem(playlist, item, generatePlaylistItemId(UsedPlaylistItemIds), now),
            "addItem")

\* removeItem(playlistItemId): lines 101-113
CallRemoveItem(playlistItemId) ==
  /\ playlist.present /\ ~filterThrows(playlist.items)
  /\ Edited(removeItem(playlist, playlistItemId, now), "removeItem")

\* moveItem(startIndex, destinationIndex): lines 115-138
CallMoveItem(startIndex, destinationIndex) ==
  /\ playlist.present
  /\ Len(moveItem(playlist, startIndex, destinationIndex, now).items) <= MaxEntries
  /\ Edited(moveItem(playlist, startIndex, destinationIndex, now), "moveItem")

\* updateMetadata(updates): lines 140-155
CallUpdateMetadata(updates) ==
  /\ playlist.present
  /\ Edited(updateMetadata(playlist, updates, now), "updateMetadata")

\* reset(): lines 194-196, setPlaylist(createDefaultPlaylist())
CallReset ==
  /\ Edited(createDefaultPlaylist(now), "reset")

\* save(): lines 157-181, up to the await; one save is in flight at a time
CallSave(fits) ==
  /\ playlist.present /\ ~saving.active
  /\ LET clone == clonePlaylist(playlist)
         saved == savePlaylist(clone, localStorageAvailable, Store, now, fits)
     IN /\ localStorage' = saved.store.localStorage
        /\ inMemoryPlaylist' = saved.store.inMemoryPlaylist
        /\ IF saved.thrown
             THEN /\ playlistError' = "We hit a snag while saving. Please try again."
                  /\ plast' = [NoPlaylistEvent EXCEPT !.kind = "saveRejected"]
                  /\ UNCHANGED <<isSaving, saving>>
             ELSE /\ playlistError' = Null
                  /\ isSaving' = TRUE
                  /\ saving' = [active |-> TRUE, value |-> saved.value, edited |-> FALSE]
                  /\ plast' = [NoPlaylistEvent EXCEPT !.kind = "save"]
  /\ UNCHANGED <<localStorageAvailable, now, playlist, isLoading, loading, route,
                 publicPlaylistVars, notPlaylistVars>>

\* the provider after loadPlaylist() has found no stored playlist and set
\* the default one; the storage has room for every playlist saved
InitPlaylistApi == InitEditor

NextPlaylistApi ==
  \/ \E item \in SavedMedia : CallAddItem(item)
  \/ \E playlistItemId \in 0 .. MaxEntries + 1 : CallRemoveItem(playlistItemId)
  \/ \E startIndex, destinationIndex \in -1 .. MaxEntries :
       CallMoveItem(startIndex, destinationIndex)
  \/ \E updates \in SavedUpdates : CallUpdateMetadata(updates)
  \/ CallReset
  \/ CallSave(TRUE)
  \/ SaveSettles

SpecPlaylistApi == InitPlaylistApi /\ [][NextPlaylistApi]_vars

(***************************************************************************)
(* components/RecommendationGrid.tsx: the effect that loads the            *)
(* recommendations each time the playlist changes                          *)
(***************************************************************************)
MaxGridCalls == 2         \* getRecommendations() calls in flight

\* getRecommendations(playlist) as the effect awaits it: it rejects when an
\* entry of the playlist is undefined (makeUniqueKey reads item.type)
recommend(p) ==
  IF p.present /\ filterThrows(p.items)
    THEN [thrown |-> TRUE, items |-> <<>>]
    ELSE [thrown |-> FALSE, items |-> getRecommendations(p)]

\* the call of a run of the effect: the playlist of its closure and its
\* cancelled
Run(p) == [cancelled |-> FALSE, playlist |-> p]

\* the effect's cleanup: cancelled = true in the closure of each earlier run
cleanup(inFlight) ==
  [i \in 1 .. Len(inFlight) |-> [inFlight[i] EXCEPT !.cancelled = TRUE]]

\* the effect of lines 13-41 run for playlist p: the cleanup of the run
\* before, then loadRecommendations() up to its await
effect(g, p) ==
  [g EXCEPT !.loading = TRUE, !.error = Null,
            !.calls = Append(cleanup(g.calls), Run(p))]

\* faulty variant of loadRecommendationsSettled(): cancelled is not looked at
loadRecommendationsSettled_uncancelled(g, shown, call, result) ==
  IF result.thrown
    THEN <<[g EXCEPT !.error = "Unable to load personalized picks right now.",
                        !.loading = FALSE],
           shown>>
    ELSE <<[g EXCEPT !.loading = FALSE], [loaded |-> TRUE, items |-> result.items]>>

\* loadRecommendations() after its await: lines 20-33
loadRecommendationsSettled(g, shown, call, result) ==
  IF call.cancelled
    THEN <<g, shown>>
    ELSE IF result.thrown
      THEN <<[g EXCEPT !.error = "Unable to load personalized picks right now.",
                          !.loading = FALSE],
             shown>>
      ELSE <<[g EXCEPT !.loading = FALSE], [loaded |-> TRUE, items |-> result.items]>>

\* setPlaylist(next) in the provider with an object that is not the one
\* held: RecommendationGrid renders again and its effect runs
PlaylistChanges(next, kind) ==
  /\ Len(grid.calls) < MaxGridCalls
  /\ playlist' = next
  /\ plast' = [kind |-> kind]
  /\ grid' = IF grid.mounted THEN effect(grid, next) ELSE grid
  /\ UNCHANGED <<storageVars, now, isSaving, playlistError, saving, route,
                 publicPlaylistVars, media, recommendations, feeds, authVars,
                 loginVars>>

\* loadPlaylist() of the provider resolved
GridPlaylistLoads ==
  /\ loading.active
  /\ isLoading' = FALSE /\ loading' = NoPromise
  /\ PlaylistChanges(loading.value, "loaded")

\* addItem(item) with an item that is not in the playlist
GridAddItem(item) ==
  /\ canMutate /\ ~someThrows(playlist.items, item) /\ ~hasItem(playlist, item)
  /\ Len(playlist.items) < MaxEntries
  /\ PlaylistChanges(addItem(playlist, item, generatePlaylistItemId(UsedPlaylistItemIds), now),
                     "addItem")
  /\ UNCHANGED <<isLoading, loading>>

\* removeItem(playlistItemId)
GridRemoveItem(playlistItemId) ==
  /\ canMutate /\ ~filterThrows(playlist.items)
  /\ PlaylistChanges(removeItem(playlist, playlistItemId, now), "removeItem")
  /\ UNCHANGED <<isLoading, loading>>

\* moveItem(startIndex, destinationIndex) within bounds: it returns the
\* playlist held otherwise
GridMoveItem(startIndex, destinationIndex) ==
  /\ canMutate
  /\ moveItem(playlist, startIndex, destinationIndex, now) # playlist
  /\ Len(moveItem(playlist, startIndex, destinationIndex, now).items) <= MaxEntries
  /\ PlaylistChanges(moveItem(playlist, startIndex, destinationIndex, now), "moveItem")
  /\ UNCHANGED <<isLoading, loading>>

\* reset()
GridReset ==
  /\ PlaylistChanges(createDefaultPlaylist(now), "reset")
  /\ UNCHANGED <<isLoading, loading>>

\* a getRecommendations() promise settles, 280 ms after its call: the
\* earliest call first
RecommendationsSettle ==
  /\ grid.calls # <<>>
  /\ LET settled ==
           loadRecommendationsSettled([grid EXCEPT !.calls = Tail(grid.calls)],
                                      recommendations, Head(grid.calls),
                                      recommend(Head(grid.calls).playlist))
     IN /\ grid' = settled[1]
        /\ recommendations' = settled[2]
  /\ UNCHANGED <<media, feeds, notDiscoveryVars>>

\* RecommendationGrid unmounts: the cleanup of the effect
GridUnmounts ==
  /\ grid.mounted
  /\ grid' = [grid EXCEPT !.mounted = FALSE, !.calls = cleanup(grid.calls)]
  /\ UNCHANGED <<media, recommendations, feeds, notDiscoveryVars>>

\* the dashboard just mounted: the provider awaits getPlaylist(), the grid
\* has run its effect for the playlist null
InitGrid ==
  /\ tokenCache = Null
  /\ calls = [i \in Slots |-> Idle]
  /\ last = NoEvent
  /\ user = Null /\ status = "unauthenticated" /\ error = Null
  /\ isProcessing = FALSE /\ mounted = TRUE
  /\ LoginPageIdle
  /\ localStorageAvailable = TRUE
  /\ localStorage = JSONstringify(createDefaultPlaylist(0))
  /\ inMemoryPlaylist = NoPlaylist
  /\ now = 0
  /\ playlist = NoPlaylist
  /\ isLoading = TRUE /\ isSaving = FALSE /\ playlistError = Null
  /\ loading = [active |-> TRUE, value |-> createDefaultPlaylist(0)]
  /\ saving = NoSave
  /\ route = Dashboard
  /\ publicStatus = "loading" /\ publicPlaylist = NoPlaylist /\ publicLoad = NoPromise
  /\ plast = [NoPlaylistEvent EXCEPT !.kind = "visit"]
  /\ media = NoMediaCall /\ recommendations = NoRecommendations
  /\ grid = effect([NoGrid EXCEPT !.mounted = TRUE], NoPlaylist)
  /\ feeds = [h \in Hooks |-> NoFeed]

NextGrid ==
  \/ GridPlaylistLoads
  \/ \E item \in SavedMedia : GridAddItem(item)
  \/ \E playlistItemId \in 1 .. MaxEntries : GridRemoveItem(playlistItemId)
  \/ \E startIndex, destinationIndex \in 0 .. MaxEntries :
       GridMoveItem(startIndex, destinationIndex)
  \/ GridReset
  \/ RecommendationsSettle
  \/ GridUnmounts

SpecGrid == InitGrid /\ [][NextGrid]_vars

(***************************************************************************)
(* The hooks of the mocked data: hooks/useDiscoveryFeed.ts                 *)
(* (src/src/hooks/useDiscoveryFeed.ts, lines 7-39) and hooks/usePlaylists  *)
(* (src/frontend/tailwind.config.ts, lines 26-58), used by DiscoveryPage   *)
(* and PlaylistsPage; lib/api/client.ts                                    *)
(***************************************************************************)
MaxLoads == 2             \* loads of one hook in flight

\* what an axios call rejects with before the interceptor: an AxiosError
\* with or without a response, another Error, or something else
AxiosFailure(responseMessage, responseStatus, text) ==
  [kind |-> "axios", responseMessage |-> responseMessage, status |-> responseStatus,
   message |-> text]
Causes ==
  {AxiosFailure("Feed unavailable", "503", "Request failed with status code 503"),
   AxiosFailure(Null, "500", "Request failed with status code 500"),
   AxiosFailure(Null, Null, "Network Error"),
   AxiosFailure(Null, Null, Null),
   [kind |-> "error", responseMessage |-> Null, status |-> Null, message |-> "boom"],
   [kind |-> "other", responseMessage |-> Null, status |-> Null, message |-> Null]}

\* toApiError(): lines 20-37
toApiError(cause) ==
  IF cause.kind = "axios"
    THEN [present |-> TRUE,
          message |-> IF cause.responseMessage # Null THEN cause.responseMessage
                      ELSE IF cause.message # Null THEN cause.message
                      ELSE "Something went wrong while contacting the API",
          status |-> cause.status]
    ELSE IF cause.kind = "error"
      THEN [present |-> TRUE, message |-> cause.message, status |-> Null]
      ELSE [present |-> TRUE, message |-> "Unknown error", status |-> Null]

\* what fetchDiscoveryFeed() and fetchPlaylists() settle with: the list of
\* the API or the fallback list, or the rejection of the response
\* interceptor (lines 52-55)
Fetched == {<<>>, <<"1">>, <<"2">>, <<"1", "2">>}
Resolved(items) == [ok |-> TRUE, items |-> items, error |-> NoApiError]
Rejected(cause) == [ok |-> FALSE, items |-> <<>>, error |-> toApiError(cause)]
FetchOutcomes == {Resolved(items) : items \in Fetched} \cup {Rejected(cause) : cause \in Causes}

\* isError: Boolean(error)
isError(f) == f.error.present

\* the hook called by a component that mounts: useState(feed.length === 0)
\* and the effect to run; the loads of the instance before are no longer its
mountHook(f) ==
  [f EXCEPT !.mounted = TRUE, !.error = NoApiError, !.isLoading = (f.list = <<>>),
            !.effect = TRUE, !.event = Happened("mount")]

\* loadFeed() and loadPlaylists(): lines 13-15, up to the await
loadFeed(f) == [f EXCEPT !.isLoading = TRUE, !.loads = @ + 1]

\* the effect of lines 26-30
autoLoad(f) ==
  IF f.list = <<>>
    THEN [loadFeed(f) EXCEPT !.effect = FALSE, !.event = Happened("autoLoad")]
    ELSE [f EXCEPT !.effect = FALSE, !.event = Happened("noLoad")]

\* faulty variant of loadFeedSettled(): a failed load empties the list
loadFeedSettled_clearing(f, outcome) ==
  IF outcome.ok
    THEN [f EXCEPT !.list = outcome.items, !.error = NoApiError, !.isLoading = FALSE,
                   !.effect = (Len(outcome.items) # Len(f.list)),
                   !.loads = @ - 1, !.event = [kind |-> "loaded", outcome |-> outcome]]
    ELSE [f EXCEPT !.list = <<>>, !.error = outcome.error, !.isLoading = FALSE,
                   !.loads = @ - 1, !.event = [kind |-> "failed", outcome |-> outcome]]

\* loadFeed() and loadPlaylists() after the await: lines 16-23; the effect
\* is to run again when the length of the list has changed
loadFeedSettled(f, outcome) ==
  IF outcome.ok
    THEN [f EXCEPT !.list = outcome.items, !.error = NoApiError, !.isLoading = FALSE,
                   !.effect = (Len(outcome.items) # Len(f.list)),
                   !.loads = @ - 1, !.event = [kind |-> "loaded", outcome |-> outcome]]
    ELSE [f EXCEPT !.error = outcome.error, !.isLoading = FALSE,
                   !.loads = @ - 1, !.event = [kind |-> "failed", outcome |-> outcome]]

\* a load of an instance that has unmounted settles: the setters of its
\* state do nothing, the store is set
earlierLoadSettled(f, outcome) ==
  IF outcome.ok
    THEN [f EXCEPT !.list = outcome.items,
                   !.effect = f.mounted /\ (f.effect \/ Len(outcome.items) # Len(f.list)),
                   !.earlier = @ - 1, !.event = Happened("earlierLoaded")]
    ELSE [f EXCEPT !.earlier = @ - 1, !.event = Happened("earlierFailed")]

FeedChanges(h, next) ==
  /\ feeds' = [feeds EXCEPT ![h] = next]
  /\ UNCHANGED <<media, recommendations, grid, notDiscoveryVars>>

\* DiscoveryPage or PlaylistsPage mounts; the two are pages of different
\* routes
HookMounts(h) ==
  /\ \A other \in Hooks : ~feeds[other].mounted
  /\ feeds[h].loads + feeds[h].earlier < MaxLoads
  /\ FeedChanges(h, mountHook(feeds[h]))

\* React runs the effect of the hook after the render
HookEffect(h) ==
  /\ feeds[h].mounted /\ feeds[h].effect
  /\ FeedChanges(h, autoLoad(feeds[h]))

\* the Refresh button of the page: refresh(); React runs a pending effect
\* before it handles the click
HookRefresh(h) ==
  /\ feeds[h].mounted /\ ~feeds[h].effect
  /\ feeds[h].loads + feeds[h].earlier < MaxLoads
  /\ FeedChanges(h, [loadFeed(feeds[h]) EXCEPT !.event = Happened("refresh")])

\* a load of the mounted instance settles
HookLoadSettles(h, outcome) ==
  /\ feeds[h].mounted /\ ~feeds[h].effect
  /\ feeds[h].loads > 0
  /\ FeedChanges(h, loadFeedSettled(feeds[h], outcome))

\* a load of an earlier instance settles
EarlierLoadSettles(h, outcome) ==
  /\ ~feeds[h].effect
  /\ feeds[h].earlier > 0
  /\ FeedChanges(h, earlierLoadSettled(feeds[h], outcome))

\* the page unmounts: its state is gone, its loads go on
HookUnmounts(h) ==
  /\ feeds[h].mounted /\ ~feeds[h].effect
  /\ FeedChanges(h, [feeds[h] EXCEPT !.mounted = FALSE, !.error = NoApiError,
                                     !.isLoading = FALSE,
                                     !.earlier = @ + feeds[h].loads, !.loads = 0,
                                     !.event = Happened("unmount")])

\* the application before one of the two pages is shown: the store's lists
\* are empty (store/appStore.ts)
InitFeeds ==
  /\ tokenCache = Null
  /\ calls = [i \in Slots |-> Idle]
  /\ last = NoEvent
  /\ user = Null /\ status = "unauthenticated" /\ error = Null
  /\ isProcessing = FALSE /\ mounted = TRUE
  /\ LoginPageIdle
  /\ PlaylistPagesIdle
  /\ DiscoveryIdle

NextFeeds ==
  \E h \in Hooks :
    \/ HookMounts(h)
    \/ HookEffect(h)
    \/ HookRefresh(h)
    \/ \E outcome \in FetchOutcomes : HookLoadSettles(h, outcome)
    \/ \E outcome \in FetchOutcomes : EarlierLoadSettles(h, outcome)
    \/ HookUnmounts(h)

SpecFeeds == InitFeeds /\ [][NextFeeds]_vars

(***************************************************************************)
(* Properties of the auth service                                          *)
(***************************************************************************)
Settled(e) == e.kind \in {"resolved", "rejected"}
Unauthorized(s) == s = 401 \/ s = 403

\* C1: after the auth service's logout() settles, getAccessToken() returns
\* null, whether the POST /auth/logout request succeeded or was rejected.
C1_LogoutAlwaysClearsTokens ==
  (last.op = "logout" /\ Settled(last))
    => getAccessToken = Null

\* what C2 says of every resolveSession() call apart from the number of
\* requests: the order of the requests, the Bearer token of the second GET,
\* the returned profile, and the token cache when both requests succeeded
\* (for a call that no other call interleaved with)
ResolveSessionRefreshPath ==
  last.op = "resolveSession" =>
    /\ Len(last.reqs) <= 3
    /\ (Len(last.reqs) = 1 /\ Settled(last)) => ~Unauthorized(last.status)
    /\ Len(last.reqs) >= 2 =>
         last.reqs[1] = "GET /auth/me" /\ last.reqs[2] = "POST /auth/refresh"
    /\ (Len(last.reqs) = 2 /\ last.kind = "request") => Unauthorized(last.status)
    /\ Len(last.reqs) = 3 => last.reqs[3] = "GET /auth/me"
    /\ (Len(last.reqs) = 3 /\ last.kind = "request") =>
         /\ last.refreshed = last.tokens /\ last.refreshed \in Tokens
         /\ last.req = [method |-> "GET", path |-> "/auth/me", auth |-> last.refreshed]
         /\ getAccessToken = last.refreshed
    /\ (Len(last.reqs) = 3 /\ Settled(last) /\ last.status = 200) =>
         /\ last.kind = "resolved"
         /\ last.value = last.body /\ last.value \in Profiles
         /\ last.undisturbed => getAccessToken = last.refreshed

\* C2 as stated: when the first GET /auth/me of resolveSession is rejected
\* with 401 or 403 the call issues exactly one POST /auth/refresh and then
\* exactly one more GET /auth/me (three requests in that order); when both
\* succeed it returns the profile of the second GET, the token cache holds
\* the refreshed access token, and the second GET carries that token.
C2_AlwaysThreeRequests ==
  /\ ResolveSessionRefreshPath
  /\ (last.op = "resolveSession" /\ Settled(last) /\ Len(last.reqs) >= 2)
       => Len(last.reqs) = 3

\* C2 as amended: the second GET /auth/me is issued exactly when the
\* POST /auth/refresh succeeded; a call whose refresh failed settles after
\* two requests.
C2_ResolveSessionRefreshes ==
  /\ ResolveSessionRefreshPath
  /\ (last.op = "resolveSession" /\ Settled(last) /\ Len(last.reqs) = 2)
       => last.status \in ErrorStatuses
  /\ (last.op = "resolveSession" /\ last.kind = "request" /\ Len(last.reqs) = 3)
       => last.status = 200

C2_Witness ==
  /\ last.op = "resolveSession" /\ last.kind = "resolved"
  /\ last.reqs = <<"GET /auth/me", "POST /auth/refresh", "GET /auth/me">>
  /\ last.value \in Profiles /\ last.undisturbed
  /\ getAccessToken = last.refreshed /\ last.refreshed \in Tokens

\* a step that handled a 2xx answer to login, signup or refreshSession (the
\* refreshSession inside resolveSession included)
CredentialResponse(e) ==
  /\ e.status = 200
  /\ \/ e.op \in {"login", "signup", "refreshSession"}
     \/ e.op = "resolveSession" /\ Len(e.reqs) = 3 /\ e.kind = "request"

\* C3: every step that handles a successful login / signup / refreshSession
\* response leaves that response's accessToken in the cache; every other
\* step (a failed request included) leaves the cache as it was or clears it.
\* Hence getAccessToken() is the accessToken of the latest successful
\* credential response, or null if the cache was cleared since.
C3_TokenCacheTracksCredentials ==
  [][IF CredentialResponse(last')
       THEN getAccessToken' = last'.tokens /\ last'.tokens \in Tokens
       ELSE getAccessToken' = getAccessToken \/ getAccessToken' = Null]_vars

C3_Witness ==
  /\ last.op = "login" /\ last.kind = "resolved" /\ last.status = 200
  /\ getAccessToken = last.tokens /\ last.tokens \in Tokens

\* C4: a request issued by fetchProfile, updateProfile or logout carries
\* "Authorization: Bearer t" exactly when the cache holds t as it is issued,
\* and no Authorization header when the cache is empty; login, signup and
\* refresh requests never carry one.
C4_BearerHeader ==
  last.kind = "request" =>
    last.req.auth =
      IF last.req.path \in {"/auth/me", "/auth/logout"} /\ getAccessToken # Null
        THEN getAccessToken
        ELSE NoHeader

C4_Witness ==
  /\ last.kind = "request" /\ last.op = "fetchProfile"
  /\ last.req.auth = getAccessToken /\ getAccessToken \in Tokens

C9_RefreshDeniedClearsSession ==
  (/\ last.op = "resolveSession" /\ Unauthorized(last.status)
   /\ \/ Settled(last) /\ Len(last.reqs) = 2
      \/ last.kind = "request" /\ Len(last.reqs) = 3)
  => /\ last.kind = "resolved" /\ last.value = Null
     /\ last.reqs = <<"GET /auth/me", "POST /auth/refresh">>
     /\ getAccessToken = Null

C9_Witness ==
  /\ last.op = "resolveSession" /\ last.kind = "resolved" /\ last.value = Null
  /\ last.reqs = <<"GET /auth/me", "POST /auth/refresh">>
  /\ last.status = 403 /\ getAccessToken = Null

(***************************************************************************)
(* Properties of the AuthProvider                                          *)
(***************************************************************************)
ByProvider(e, op) == e.caller = "provider" /\ e.op = op
Hydrating == \E i \in Slots : calls[i].caller = "provider" /\ calls[i].op = "resolveSession"

\* C5: the provider starts with status 'loading' and user null; when the
\* resolveSession() of its mount effect settles while it is still mounted,
\* status is 'authenticated' with the returned profile as user if one was
\* returned, and 'unauthenticated' with user null if it returned null or
\* rejected; once it has settled the status is no longer 'loading', and no
\* step sets a status back to 'loading'.
C5_HydrateState ==
  /\ (ByProvider(last, "resolveSession") /\ last.kind = "request" /\ Len(last.reqs) = 1)
       => (status = "loading" /\ user = Null)
  /\ (ByProvider(last, "resolveSession") /\ Settled(last) /\ mounted) =>
       IF last.kind = "resolved" /\ last.value \in Profiles
         THEN status = "authenticated" /\ user = last.value
         ELSE status = "unauthenticated" /\ user = Null
  /\ (mounted /\ ~Hydrating) => status # "loading"

C5_HydratesOnMount ==
  []C5_HydrateState /\ [][status # "loading" => status' # "loading"]_vars

C5_Witness ==
  /\ ByProvider(last, "resolveSession") /\ last.kind = "resolved" /\ mounted
  /\ last.statusBefore = "loading"
  /\ last.value \in Profiles /\ user = last.value /\ status = "authenticated"

\* C6: when AuthProvider.logout() settles, user is null, status is
\* 'unauthenticated' and isProcessing is false, whether the logout request
\* resolved or was rejected, and logout()'s own promise resolves.
C6_LogoutClearsSession ==
  (ByProvider(last, "logout") /\ Settled(last)) =>
    /\ last.promise = "resolved"
    /\ mounted => (user = Null /\ status = "unauthenticated" /\ isProcessing = FALSE)

C6_Witness ==
  /\ ByProvider(last, "logout") /\ last.kind = "rejected" /\ mounted
  /\ last.statusBefore = "authenticated" /\ last.promise = "resolved"
  /\ user = Null /\ status = "unauthenticated" /\ isProcessing = FALSE

\* C7: when AuthProvider.login() or signup(), with no other auth call
\* having acted while it was in flight, resolves with profile p, the context
\* has status 'authenticated', user p, error null and isProcessing false;
\* and isProcessing is true for as long as such a call is in flight.
C7_LoginAuthenticates ==
  /\ \A op \in {"login", "signup"} :
       (ByProvider(last, op) /\ last.kind = "resolved" /\ last.undisturbed /\ mounted)
         => /\ last.promise = "resolved" /\ last.value \in Profiles
            /\ status = "authenticated" /\ user = last.value
            /\ error = Null /\ isProcessing = FALSE
  /\ \A i \in Slots :
       (/\ calls[i].caller = "provider" /\ calls[i].op \in {"login", "signup"}
        /\ calls[i].undisturbed /\ mounted)
         => isProcessing = TRUE

C7_Witness ==
  /\ ByProvider(last, "login") /\ last.kind = "resolved" /\ last.undisturbed
  /\ mounted /\ ~Hydrating /\ last.statusBefore = "unauthenticated"
  /\ status = "authenticated" /\ user = last.value /\ user \in Profiles
  /\ error = Null /\ isProcessing = FALSE

(***************************************************************************)
(* Properties of the Login page                                            *)
(***************************************************************************)
\* C10: handleSubmit calls login() only when the trimmed e-mail is not
\* empty and matches the e-mail pattern and the password has at least 8
\* characters, and then passes the e-mail trimmed and lower-cased and the
\* password unchanged; otherwise it sets a field error and calls nothing.
ValidEmail(s) == trim(s) # <<>> /\ emailPattern(trim(s))

C10_LoginFormValidates ==
  /\ submitted.kind = "login" =>
       /\ ValidEmail(email) /\ Len(password) >= 8
       /\ pending /\ noErrors(fieldErrors)
       /\ submitted.payload.password = password
       /\ submitted.payload.email = toLowerCase(trim(email))
       /\ \A k \in 1 .. Len(submitted.payload.email) :
            submitted.payload.email[k] \notin {"U", " "}
  /\ submitted.kind = "invalid" =>
       /\ ~(ValidEmail(email) /\ Len(password) >= 8)
       /\ ~pending
       /\ (fieldErrors.email # Null) <=> ~ValidEmail(email)
       /\ (fieldErrors.password # Null) <=> Len(password) < 8

C10_Witness ==
  /\ submitted.kind = "login" /\ pending
  /\ email = <<" ", "U", "@", "U", ".", "U">>
  /\ submitted.payload.email = <<"u", "@", "u", ".", "u">>
  /\ submitted.payload.password = password /\ Len(password) = 8

\* the "from" of a location state when it is a string starting with '/'
FromPath(state) == state.object /\ state.hasFrom /\ startsWithSlash(state.from)

\* C11: the Login page leaves /login only in the step in which the login()
\* of handleSubmit resolves, and then it goes to location.state.from when
\* that is a string starting with '/', and to '/' otherwise; when login()
\* rejects, the page stays on /login and shows the rejection's message (a
\* fixed text when the rejection has no message).
C11_RedirectIffLoginSucceeded ==
  [][/\ location' # location => (pending /\ submitted'.kind = "resolved")
     /\ submitted'.kind = "resolved" =>
          /\ pending /\ location.pathname = LoginPath
          /\ location'.pathname =
               IF FromPath(location.state) THEN location.state.from ELSE <<"/">>
          /\ submitError' = submitError
     /\ submitted'.kind = "rejected" =>
          /\ pending /\ location' = location /\ location'.pathname = LoginPath
          /\ submitError' # Null
          /\ (submitted'.rejection.isError /\ submitted'.rejection.message # "")
               => submitError' = submitted'.rejection.message]_vars

C11_Witness ==
  /\ submitted.kind = "resolved" /\ ~pending
  /\ location.pathname = <<"/", "p">> /\ submitted.to = <<"/", "p">>

(***************************************************************************)
(* Properties of the playlist pages                                        *)
(***************************************************************************)
\* what a getPlaylist() would read from the storage
Persisted == readFromStorage(localStorageAvailable, Store)

\* the two playlists agree on everything but updatedAt
SameContent(p, q) ==
  /\ p.present = q.present /\ p.id = q.id /\ p.name = q.name
  /\ p.description = q.description /\ p.isPublic = q.isPublic
  /\ p.items = q.items

\* the loaded playlist is the persisted one, it has been saved (a playlist
\* can be saved once it has an item) and no save is in flight
Saved ==
  /\ playlist.present /\ Len(playlist.items) > 0
  /\ ~saving.active /\ playlist = Persisted

\* what C12 says of save() up to a page reload: the call writes the
\* playlist with a fresh updatedAt; when it resolves with no edit made
\* meanwhile the in-memory playlist is the persisted one, with the content
\* it had, and getPlaylist(DEFAULT_PLAYLIST_ID) returns it without writing;
\* isSaving is true exactly while the save is in flight
SaveWritesPlaylist ==
  /\ plast'.kind = "save" =>
       /\ isSaving' /\ saving'.active /\ playlist' = playlist
       /\ SameContent(Persisted', playlist) /\ Persisted'.updatedAt = now
       /\ saving'.value = Persisted'
  /\ (plast'.kind = "saveResolved" /\ ~saving.edited) =>
       /\ ~isSaving'
       /\ SameContent(playlist', playlist)
       /\ playlist' = Persisted' /\ playlist' = saving.value
       /\ getPlaylist(DEFAULT_PLAYLIST_ID, localStorageAvailable', Store', now', TRUE)
            = [thrown |-> FALSE, value |-> playlist', store |-> Store']
  /\ isSaving' <=> saving'.active

\* C12 as stated: saving persists the playlist (same id, name, description,
\* isPublic and items, a fresh updatedAt), the in-memory playlist equals the
\* persisted one when save() resolves, isSaving is true exactly while the
\* save is in flight, and a getPlaylist(DEFAULT_PLAYLIST_ID) after a page
\* reload returns the saved playlist.
C12_SaveSurvivesEveryReload ==
  [][/\ SaveWritesPlaylist
     /\ (plast'.kind = "visit" /\ Saved) => loading'.value = playlist]_vars

\* C12 as amended: the getPlaylist(DEFAULT_PLAYLIST_ID) of a page reload
\* returns the saved playlist when localStorage is available; the in-memory
\* fallback of the storage does not outlive the page.
C12_SavePersistsPlaylist ==
  [][/\ SaveWritesPlaylist
     /\ (plast'.kind = "visit" /\ Saved /\ localStorageAvailable)
          => (loading'.active /\ loading'.value = playlist)]_vars

C12_Witness ==
  /\ plast.kind = "saveResolved" /\ ~isSaving /\ localStorageAvailable
  /\ playlist.present /\ playlist = Persisted
  /\ Len(playlist.items) = 2 /\ playlist.isPublic /\ playlist.updatedAt > 0

\* the sequence without the entries equal to e
Without(items, e) == SelectSeq(items, LAMBDA x : x # e)
EntriesOf(items) == {items[i] : i \in 1 .. Len(items)}

\* addItem(item) on playlist p appended one entry for item and changed
\* nothing else of the items
AppendedOne(p, next, item) ==
  /\ Len(next.items) = Len(p.items) + 1
  /\ SubSeq(next.items, 1, Len(p.items)) = p.items
  /\ next.items[Len(next.items)].id = item.id
  /\ next.items[Len(next.items)].type = item.type
  /\ next.items[Len(next.items)].playlistItemId \notin idsOf(p)

\* C13: for a loaded playlist and a media item whose (id, type) is not in
\* it, addItem appends one new entry for that item at the end of items: the
\* count grows by exactly one and the entries there were keep their places.
\* It is stated of addItem on every playlist the editor reaches, and of
\* every click on a media card's add button.
C13_AddItemAppendsOne ==
  /\ [](playlist.present =>
         \A item \in Media :
           ~hasItem(playlist, item) =>
             AppendedOne(playlist,
                         addItem(playlist, item,
                                 generatePlaylistItemId(UsedPlaylistItemIds), now),
                         item))
  /\ [][plast'.kind = "addItem" =>
          \E item \in Media :
            ~hasItem(playlist, item) /\ AppendedOne(playlist, playlist', item)]_vars

C13_Witness ==
  /\ plast.kind = "addItem" /\ playlist.present /\ Len(playlist.items) = 3
  /\ playlist.items[3].id = "1" /\ playlist.items[3].type = "music"
  /\ playlist.items[1].id = "2"

\* moveItem(start, dest) on playlist p, both indices in range and
\* different, gave a permutation with the moved entry at dest and the
\* others in their former order
MovedTo(p, next, start, dest) ==
  /\ Len(next.items) = Len(p.items)
  /\ EntriesOf(next.items) = EntriesOf(p.items)
  /\ next.items[dest + 1] = p.items[start + 1]
  /\ Without(next.items, p.items[start + 1]) = Without(p.items, p.items[start + 1])

\* C14: for a loaded playlist of n items, moveItem(start, dest) with both
\* indices in 0 .. n-1 and different yields a permutation of the items with
\* the item formerly at start at index dest and the others in their former
\* relative order; with dest out of range or equal to start it leaves the
\* playlist as it is, updatedAt included; and every click on a move-up or
\* move-down control swaps two adjacent items.
C14_MoveItemReorders ==
  /\ [](playlist.present =>
         LET n == Len(playlist.items)
         IN \A start \in -1 .. n + 1, dest \in -1 .. n + 1, t \in 0 .. MaxClock + 1 :
              IF dest < 0 \/ dest >= n \/ dest = start
                THEN moveItem(playlist, start, dest, t) = playlist
                ELSE (start >= 0 /\ start < n) =>
                       MovedTo(playlist, moveItem(playlist, start, dest, t), start, dest))
  /\ [][plast'.kind = "moveItem" =>
          \E i \in 1 .. Len(playlist.items) - 1 :
            /\ playlist'.items = [playlist.items EXCEPT ![i] = playlist.items[i + 1],
                                                        ![i + 1] = playlist.items[i]]
            /\ playlist' = [playlist EXCEPT !.items = playlist'.items,
                                            !.updatedAt = now]]_vars

C14_Witness ==
  /\ plast.kind = "moveItem" /\ playlist.present /\ Len(playlist.items) = 3
  /\ playlist.updatedAt = now /\ now > 0
  /\ playlist.items[1].playlistItemId = 2

OnPublicPlaylist == route.page = "PublicPlaylist"
\* the persisted playlist is the one the route names, and it is public
Shared ==
  /\ Persisted.present /\ Persisted.id = route.playlistId /\ Persisted.isPublic

\* what C15 says of the PublicPlaylist page apart from the visit that
\* follows a save: 'ready' shows the persisted playlist and is reached only
\* when that has the id of the route and is public; a load that completes
\* ends in 'ready' or 'not-found'; a route without id is 'not-found' at
\* once; a load that fails (the storage can be neither read nor given a
\* default playlist) is 'error'
PublicPlaylistStatus ==
  /\ publicStatus = "ready" =>
       (OnPublicPlaylist /\ Shared /\ publicPlaylist = Persisted)
  /\ plast.kind = "publicLoaded" =>
       publicStatus = IF Shared THEN "ready" ELSE "not-found"
  /\ (plast.kind = "visit" /\ OnPublicPlaylist) =>
       publicStatus =
         IF route.playlistId = "" THEN "not-found"
         ELSE IF Persisted.present /\ Persisted.id = DEFAULT_PLAYLIST_ID THEN "loading"
         ELSE "error"
  /\ publicStatus = "error" =>
       ~(Persisted.present /\ Persisted.id = DEFAULT_PLAYLIST_ID)

ShareControlsDisplayed ==
  OnDashboard /\ ~isLoading /\ playlist.present /\ playlist.isPublic

\* C16: in every state in which the share controls are displayed, opening
\* the share URL <origin>/playlist/<playlist.id> loads the PublicPlaylist
\* page with a result that brings it to 'ready' with the playlist, not to
\* 'Playlist unavailable'.
C16_ShareLinkShowsPlaylist ==
  ShareControlsDisplayed =>
    LET opened == PageLoad(PublicPlaylistPage(playlist.id), localStorageAvailable,
                           [Store EXCEPT !.inMemoryPlaylist = NoPlaylist], now, TRUE)
    IN /\ opened.publicLoad.active
       /\ load(opened.publicLoad.value).status = "ready"

\* C17: loading the PublicPlaylist page for any playlistId never writes to
\* the playlist storage: the getPlaylistById() it calls leaves localStorage
\* and the in-memory fallback as they were, also when the storage is empty
\* or holds data that does not parse.
C17_PublicPlaylistNeverWrites ==
  \A id \in RouteIds \ {""} : \A fits \in BOOLEAN :
    getPlaylistById(id, localStorageAvailable, Store, now, fits).store = Store

\* C20: when addItem, removeItem, moveItem or updateMetadata was applied
\* after save() started and before it completed, the in-memory playlist
\* after the save completes still has what those edits made of it: the
\* items, their order, the name, the description and the public flag.
C20_EditsSurviveSave ==
  [][(plast'.kind = "saveResolved" /\ saving.edited)
       => SameContent(playlist', playlist)]_vars

(***************************************************************************)
(* Properties of the recommendations and the catalogue queries             *)
(***************************************************************************)
Catalogue == movieCatalog \o musicCatalog
InPlaylist(p, item) ==
  /\ p.present
  /\ \E k \in 1 .. Len(p.items) :
       p.items[k].type = item.type /\ p.items[k].id = item.id
ScoreOf(p, item) ==
  LET entries == scored(p)
  IN entries[CHOOSE k \in 1 .. Len(entries) : entries[k].item = item].score

\* C18: for every playlist (null and empty ones too) getRecommendations
\* returns at most 6 recommendations, each for a distinct item of the
\* catalogue, none for an item that is in the playlist (same type and id),
\* in order of non-increasing score; when fewer than 6 items of the
\* catalogue are left, it returns all of them.
C18_RecommendationsRanked ==
  recommendations.loaded =>
    LET recs == recommendations.items
        left == {k \in 1 .. Len(Catalogue) : ~InPlaylist(playlist, Catalogue[k])}
    IN /\ Len(recs) <= 6
       /\ \A i \in 1 .. Len(recs) :
            /\ \E k \in 1 .. Len(Catalogue) : recs[i].item = Catalogue[k]
            /\ ~InPlaylist(playlist, recs[i].item)
            /\ \A j \in 1 .. Len(recs) :
                 makeUniqueKey(recs[i].item) = makeUniqueKey(recs[j].item) => i = j
       /\ \A i \in 1 .. Len(recs) - 1 :
            ScoreOf(playlist, recs[i].item) >= ScoreOf(playlist, recs[i + 1].item)
       /\ Cardinality(left) < 6 =>
            {recs[i].item : i \in 1 .. Len(recs)} = {Catalogue[k] : k \in left}

\* recommendations for a playlist that leaves fewer than 6 items, ranked
\* otherwise than the catalogue lists them
C18_Witness ==
  /\ recommendations.loaded
  /\ playlist.present /\ Len(playlist.items) = 3
  /\ Len(recommendations.items) = 5
  /\ \E i \in 1 .. 4 :
       recommendations.items[i].item.popularity < recommendations.items[i + 1].item.popularity

\* the query a call of the catalogue queries amounts to: the media type is
\* the one among the filters, or else the argument, or else 'all'
SelectedType ==
  IF media.filters.mediaType # Null THEN media.filters.mediaType
  ELSE IF media.call # "fetchMedia" /\ media.mediaType # Null THEN media.mediaType
  ELSE "all"
SearchedFor == IF media.call = "getPopularMedia" THEN NoText ELSE media.search
SortedBy ==
  IF media.call # "getPopularMedia" /\ media.filters.sortBy = "latest"
    THEN "latest" ELSE "popularity"
LimitedTo ==
  IF media.limit.given THEN media.limit
  ELSE IF media.call = "getPopularMedia" THEN [given |-> TRUE, value |-> 12]
  ELSE IF media.call = "searchMedia" THEN [given |-> TRUE, value |-> 20]
  ELSE media.limit
SameText(a, b) == toLowerCase(trim(a)) = toLowerCase(trim(b))
\* the text of the title, description, creator and tags of an item
SearchedText(item) ==
  toLowerCase(join(<<item.title, item.description, item.creator>> \o item.tags))
Matching(item) ==
  /\ SelectedType = "all" \/ item.type = SelectedType
  /\ (media.filters.genre.given /\ media.filters.genre.value # <<>>) =>
       \E k \in 1 .. Len(item.genres) : SameText(item.genres[k], media.filters.genre.value)
  /\ (media.filters.mood.given /\ media.filters.mood.value # <<>>) =>
       \E k \in 1 .. Len(item.moods) : SameText(item.moods[k], media.filters.mood.value)
  /\ SearchedFor.given =>
       includes(SearchedText(item), toLowerCase(trim(SearchedFor.value)))
SortKey(item) == IF SortedBy = "latest" THEN item.releaseYear ELSE item.popularity
MatchingItems == {k \in 1 .. Len(Catalogue) : Matching(Catalogue[k])}

C22_LoginSurvivesStaleHydrate ==
  [][(/\ \E op \in {"login", "signup"} : ByProvider(last, op)
      /\ last.kind = "resolved" /\ status = "authenticated" /\ user \in Profiles
      /\ mounted /\ Hydrating
      /\ ByProvider(last', "resolveSession") /\ Settled(last')
      /\ ~(last'.kind = "resolved" /\ last'.value \in Profiles))
       => (status' = "authenticated" /\ user' = user)]_vars

\* C23: in every state the provider reaches, status 'unauthenticated'
\* implies that user is null.
C23_UnauthenticatedHasNoUser ==
  status = "unauthenticated" => user = Null

(***************************************************************************)
(* Properties of the guarded routes                                        *)
(***************************************************************************)
Protected == location.pathname = <<"/">> \/ location.pathname = <<"/", "p">>
PublicOnly == location.pathname = <<"/", "l">> \/ location.pathname = <<"/", "s">>
Requested == location.pathname \o location.search \o location.hash

\* C21: the Dashboard and the Profile are rendered only when the status is
\* 'authenticated'; at '/' and '/profile', while the status is 'loading'
\* only the placeholder is rendered, and when it is 'unauthenticated' the
\* guard redirects to /login with state.from the requested pathname, search
\* and hash; Login and Signup are rendered only when the status is
\* 'unauthenticated'.
C21_GuardState ==
  /\ (Shown.kind = "page" /\ Shown.page \in {"Dashboard", "Profile"})
       => status = "authenticated"
  /\ (Protected /\ status = "loading") => Shown = Placeholder
  /\ (Protected /\ status = "unauthenticated") =>
       /\ Shown.kind = "navigate" /\ Shown.to = <<"/", "l">>
       /\ Shown.state.object /\ Shown.state.hasFrom /\ Shown.state.from = Requested
  /\ (Shown.kind = "page" /\ Shown.page \in {"Login", "Signup"})
       => status = "unauthenticated"
  /\ (PublicOnly /\ status = "unauthenticated") => Shown.kind = "page"

C21_GuardsProtectRoutes ==
  /\ []C21_GuardState
  /\ [][(Protected /\ status = "unauthenticated" /\ location' # location) =>
          /\ location'.pathname = <<"/", "l">>
          /\ location'.state.hasFrom /\ location'.state.from = Requested
          /\ status' = status]_vars

\* an unauthenticated visitor of /profile?q#h has been sent to /login
C21_Witness ==
  /\ status = "unauthenticated"
  /\ location.pathname = <<"/", "l">>
  /\ location.state.hasFrom /\ location.state.from = <<"/", "p", "?", "q", "#", "h">>
  /\ Shown = Page("Login")

\* C24: for a loaded playlist and every pair of integers (startIndex,
\* destinationIndex), also with startIndex negative or at least
\* items.length, the playlist after moveItem has the same number of items
\* and the same set of playlistItemIds as before, and no undefined entry.
C24_MoveItemKeepsItems ==
  playlist.present =>
    \A startIndex, destinationIndex \in -(Len(playlist.items) + 1) .. Len(playlist.items) + 1 :
      LET next == moveItem(playlist, startIndex, destinationIndex, now)
      IN /\ Len(next.items) = Len(playlist.items)
         /\ idsOf(next) = idsOf(playlist)
         /\ \A i \in 1 .. Len(next.items) : next.items[i] # Undefined

\* C25: the playlist never holds two entries with the same (id, type) or the
\* same playlistItemId, addItem() of an item that is in the playlist leaves
\* it unchanged, and hasItem(item) is true exactly when an entry with the
\* item's (id, type) exists
HasEntry(item) ==
  \E i \in 1 .. Len(playlist.items) :
    playlist.items[i].id = item.id /\ playlist.items[i].type = item.type
C25_NoDuplicateItems ==
  playlist.present =>
    /\ \A i, j \in 1 .. Len(playlist.items) :
         i # j =>
           /\ ~(playlist.items[i].id = playlist.items[j].id
                 /\ playlist.items[i].type = playlist.items[j].type)
           /\ playlist.items[i].playlistItemId # playlist.items[j].playlistItemId
    /\ \A item \in Media :
         /\ ~someThrows(playlist.items, item)
         /\ hasItem(playlist, item) <=> HasEntry(item)
         /\ HasEntry(item) =>
              addItem(playlist, item, generatePlaylistItemId(UsedPlaylistItemIds), now)
                = playlist

\* C26: a candidate's score is its popularity, plus 18 when it has one of
\* the playlist's two most frequent genres, otherwise plus 12 when it has
\* one of the two most frequent moods, plus 4 when it is music and the
\* playlist holds a movie or it is a movie and the playlist holds music; so
\* of two candidates of equal popularity one matching a top genre ranks
\* above one matching a mood only, which ranks above one matching neither;
\* for a null or empty playlist the result is the 6 most popular items of
\* the catalogue, each with the reason 'Trending with our community'
ItemsOf(p) == IF p.present THEN p.items ELSE <<>>
\* how often the playlist's items name a genre or mood, whatever the case
Frequency(p, field, value) ==
  Cardinality({<<i, k>> \in (1 .. Len(ItemsOf(p))) \X (1 .. 2) :
                 /\ k <= Len(mediaOf(ItemsOf(p)[i])[field])
                 /\ toLowerCase(mediaOf(ItemsOf(p)[i])[field][k]) = value})
Named(p, field) ==
  {toLowerCase(mediaOf(ItemsOf(p)[i])[field][k]) :
     <<i, k>> \in {ik \in (1 .. Len(ItemsOf(p))) \X (1 .. 2) :
                     ik[2] <= Len(mediaOf(ItemsOf(p)[ik[1]])[field])}}
\* the choices of the two most frequent: equally frequent ones may each be
\* taken
MostFrequent(p, field) ==
  {top \in SUBSET Named(p, field) :
     /\ Cardinality(top) = (IF Cardinality(Named(p, field)) < 2
                              THEN Cardinality(Named(p, field)) ELSE 2)
     /\ \A in \in top, out \in Named(p, field) \ top :
          Frequency(p, field, in) >= Frequency(p, field, out)}
HasOneOf(item, field, top) ==
  \E k \in 1 .. Len(item[field]) : toLowerCase(item[field][k]) \in top
\* 2 for a match of a top genre, 1 for a match of a mood only, 0 for neither
Affinity(item, topGenres, topMoods) ==
  IF HasOneOf(item, "genres", topGenres) THEN 2
  ELSE IF HasOneOf(item, "moods", topMoods) THEN 1
  ELSE 0
Holds(p, type) == \E i \in 1 .. Len(ItemsOf(p)) : ItemsOf(p)[i].type = type
ClaimedScore(p, item, topGenres, topMoods) ==
  item.popularity
    + (IF Affinity(item, topGenres, topMoods) = 2 THEN 18
       ELSE IF Affinity(item, topGenres, topMoods) = 1 THEN 12
       ELSE 0)
    + (IF \/ item.type = "music" /\ Holds(p, "movie")
          \/ item.type = "movie" /\ Holds(p, "music")
         THEN 4 ELSE 0)
RankOf(item) ==
  IF \E i \in 1 .. Len(recommendations.items) : recommendations.items[i].item = item
    THEN CHOOSE i \in 1 .. Len(recommendations.items) :
           recommendations.items[i].item = item
    ELSE Len(Catalogue) + 1
C26_ScoreFavoursGenreOverMood ==
  recommendations.loaded =>
    LET recs == recommendations.items
        entries == scored(playlist)
        candidates == {entries[k].item : k \in 1 .. Len(entries)}
    IN /\ \E topGenres \in MostFrequent(playlist, "genres") :
          \E topMoods \in MostFrequent(playlist, "moods") :
            /\ \A k \in 1 .. Len(entries) :
                 entries[k].score
                   = ClaimedScore(playlist, entries[k].item, topGenres, topMoods)
            /\ \A better, worse \in candidates :
                 /\ better.popularity = worse.popularity
                 /\ Affinity(better, topGenres, topMoods)
                      > Affinity(worse, topGenres, topMoods)
                 /\ RankOf(worse) <= Len(recs)
                 => RankOf(better) < RankOf(worse)
       /\ Len(ItemsOf(playlist)) = 0 =>
            /\ Len(recs) = 6
            /\ \A i \in 1 .. Len(recs) :
                 /\ recs[i].reason.text = "Trending with our community"
                 /\ recs[i].reason.about = <<>>
                 /\ \A k \in 1 .. Len(Catalogue) :
                      RankOf(Catalogue[k]) > Len(recs)
                        => recs[i].item.popularity >= Catalogue[k].popularity
            /\ \A i \in 1 .. Len(recs) - 1 :
                 recs[i].item.popularity >= recs[i + 1].item.popularity

\* a music item that matches a mood only and has the variety bonus is
\* recommended after a movie of the same popularity that matches a top genre
\* and has none
C26_Witness ==
  /\ recommendations.loaded
  /\ \E i, j \in 1 .. Len(recommendations.items) :
       /\ i < j
       /\ recommendations.items[i].reason.text = "Because you enjoy"
       /\ recommendations.items[j].reason.text = "Matches your mood"
       /\ recommendations.items[i].item.popularity
            = recommendations.items[j].item.popularity
       /\ ScoreOf(playlist, recommendations.items[i].item)
            = recommendations.items[i].item.popularity + 18
       /\ ScoreOf(playlist, recommendations.items[j].item)
            = recommendations.items[j].item.popularity + 16

\* C27: a getRecommendations() call that settles after the playlist has
\* changed again, or after RecommendationGrid has unmounted, changes neither
\* the recommendations nor error nor loading; and when no call is in flight
\* any more, loading is false and the recommendations are those of the
\* playlist held (or the error is shown, when that call was rejected)
Superseded ==
  /\ grid.calls # <<>>
  /\ grid'.calls = Tail(grid.calls)
  /\ Len(grid.calls) > 1 \/ ~grid.mounted
C27_SupersededCallsIgnored ==
  /\ [](grid.mounted /\ grid.calls = <<>> =>
          /\ ~grid.loading
          /\ (grid.error # Null) = recommend(playlist).thrown
          /\ grid.error = Null =>
               recommendations = [loaded |-> TRUE, items |-> getRecommendations(playlist)])
  /\ [][Superseded =>
          /\ recommendations' = recommendations
          /\ grid'.loading = grid.loading
          /\ grid'.error = grid.error]_vars

\* the call made for the playlist null has settled after the playlist was
\* loaded: its result is not shown, the call for the loaded playlist is in
\* flight
C27_Witness ==
  /\ grid.mounted /\ playlist.present
  /\ Len(grid.calls) = 1 /\ ~grid.calls[1].cancelled
  /\ ~recommendations.loaded /\ grid.loading

\* C28: in useDiscoveryFeed and usePlaylists a load that succeeds sets the
\* store's list to the fetched items and clears the error, a load that
\* fails records the error (isError) and leaves the list as it is, and
\* either way isLoading is false once the load has completed; the effect
\* loads only when the store's list is empty, and nothing but refresh()
\* starts a load after one has failed
StepOf(h, kinds) == feeds'[h] # feeds[h] /\ feeds'[h].event.kind \in kinds
C28_LoadsSettleGracefully ==
  [][\A h \in Hooks :
       /\ StepOf(h, {"loaded"}) =>
            /\ feeds'[h].list = feeds'[h].event.outcome.items
            /\ ~isError(feeds'[h])
            /\ ~feeds'[h].isLoading
       /\ StepOf(h, {"failed"}) =>
            /\ isError(feeds'[h])
            /\ feeds'[h].error = feeds'[h].event.outcome.error
            /\ feeds'[h].list = feeds[h].list
            /\ ~feeds'[h].isLoading
            /\ ~feeds'[h].effect
       /\ StepOf(h, {"autoLoad", "noLoad"}) =>
            /\ feeds[h].event.kind \in {"mount", "loaded", "earlierLoaded"}
            /\ (feeds'[h].loads = feeds[h].loads + 1) = (feeds[h].list = <<>>)
       /\ feeds'[h].loads > feeds[h].loads =>
            \/ StepOf(h, {"refresh"})
            \/ StepOf(h, {"autoLoad"}) /\ feeds[h].list = <<>>]_vars

\* a load has failed with the message of the response while the store's
\* list was kept, and loading is over
C28_Witness ==
  \E h \in Hooks :
    /\ feeds[h].mounted /\ feeds[h].event.kind = "failed"
    /\ feeds[h].list # <<>> /\ feeds[h].error.message = "Feed unavailable"
    /\ ~feeds[h].isLoading /\ feeds[h].loads = 0

\* C29: in useDiscoveryFeed and usePlaylists isLoading is true in every
\* state in which a load of the hook is in flight
C29_LoadingWhileInFlight ==
  \A h \in Hooks : feeds[h].mounted /\ feeds[h].loads > 0 => feeds[h].isLoading

\* C30: whenever PlaylistManager shows a loaded playlist and no save is in
\* flight, the 'Save playlist' button is enabled
C30_SaveAlwaysEnabled ==
  OnDashboard /\ canMutate /\ ~isSaving /\ ~saving.active => ~SaveDisabled
=============================================================================
